---- MODULE Spec2Model ----
(***************************************************************************)
(* Verification model of the concurrent exchange simulator:                *)
(*   - the limit order book (ObjectPool, PriceLevel, OrderBook),           *)
(*   - the SPSC semaphore queue,                                           *)
(*   - the matching engine loop with accounts, risk gate and stats.        *)
(* Each part has its own specification over the shared variable list; the  *)
(* variables a specification does not use keep their initial value.        *)
(***************************************************************************)
EXTENDS Integers, Sequences, FiniteSets, TLC

(***************************************************************************)
(* Bounds of the model                                                     *)
(***************************************************************************)
MaxOrders == 2          \* pool capacity given to OrderBook (max_orders)
MaxOrderId == 3         \* order ids are 1..MaxOrderId
MaxPrice == 2           \* prices are 1..MaxPrice
MaxQty == 2             \* quantities are 0..MaxQty
MaxTraderId == 0        \* the book is called with trader ids 0..MaxTraderId
MaxTrades == 2          \* book operations stop once total_trades_ reaches it
CapacityLog2 == 1       \* the queue capacity is 2^CapacityLog2 (a power of 2)
MaxPushes == 4          \* the producer stops after this many accepted pushes
MaxEngineTraderId == 1  \* the engine's events carry trader ids 0..MaxEngineTraderId
MaxEvents == 3          \* process_event is called directly at most this many times
MaxRunEvents == 3       \* the producer of the running engine pushes at most this many
max_traders == 2        \* EngineConfig::max_traders, scaled down
initial_balance == 3    \* EngineConfig::initial_balance, scaled down
MaxSimTraders == 2      \* the simulator runs with --traders 1..MaxSimTraders
MaxSimOrders == 2       \* and with --orders MaxSimOrders
MaxCallers == 2         \* threads that call Accounts
MaxAccountCalls == 2    \* calls of each of them
MaxAccountTraderId == 2 \* the trader ids they pass: 0..MaxAccountTraderId
stripe_count == 2       \* Accounts::stripe_count_, scaled down
MaxRingValue == 2       \* the values pushed to the RingBuffer are 1..MaxRingValue
MaxRingPushes == 5      \* pushes accepted between two clears of the RingBuffer
MaxObserverCalls == 2   \* calls of size_approx() by the third thread
SizeWidth == 4          \* bits of std::size_t, scaled down from 64

OrderIds == 1..MaxOrderId
Prices == 1..MaxPrice
Qtys == 0..MaxQty
TraderIds == 0..MaxTraderId
PoolIdx == 0..(MaxOrders - 1)
Sides == {"Buy", "Sell"}

\* std::numeric_limits<std::uint32_t>::max(), written as the all-ones value -1
INVALID_INDEX == 0 - 1
INVALID_POOL_INDEX == INVALID_INDEX
INVALID_TRADER_ID == 0 - 1
INVALID_ORDER_ID == 0 - 1

opposite(s) == IF s = "Buy" THEN "Sell" ELSE "Buy"

Min2(a, b) == IF a < b THEN a ELSE b

(***************************************************************************)
(* State                                                                   *)
(***************************************************************************)
VARIABLES
    storage_,       \* ObjectPool<Order>::storage_ : slot -> Entry
    free_head_,     \* ObjectPool<Order>::free_head_
    size_,          \* ObjectPool<Order>::size_
    order_map_,     \* OrderBook::order_map_ : order id -> pool index
    bids_,          \* OrderBook::bids_ : sequence of PriceLevel
    asks_,          \* OrderBook::asks_
    total_trades_,  \* OrderBook::total_trades_
    total_volume_,  \* OrderBook::total_volume_
    queued          \* per side and price, the ids resting there by Order::timestamp
                    \* (oldest first): kept beside the book, which never reads it
VARIABLES
    buffer_,        \* SpscSemaphoreQueue::buffer_
    head_,          \* SpscSemaphoreQueue::head_.value
    tail_,          \* SpscSemaphoreQueue::tail_.value
    free_slots_,    \* count of the semaphore free_slots_
    filled_slots_,  \* count of the semaphore filled_slots_
    prod,           \* the producer thread: where it is in its call, and its locals
    cons,           \* the consumer thread: where it is in its call, and its locals
    pushed,         \* the values of the pushes that returned true / returned
    popped          \* the values of the pops that returned true / returned
VARIABLES
    accounts_,          \* Accounts::accounts_, in creation order
    stats_,             \* MatchingEngine::stats_ (the counters)
    events_processed_,  \* MatchingEngine::events_processed_
    running_,           \* MatchingEngine::running_
    stop_requested,     \* the stop token of the engine's jthread
    run_pc,             \* where the engine thread is in run()
    processed           \* the events run() has passed to process_event, in order,
                        \* each with whether the drain loop passed it

bookVars == <<storage_, free_head_, size_, order_map_, bids_, asks_,
              total_trades_, total_volume_, queued>>

queueVars == <<buffer_, head_, tail_, free_slots_, filled_slots_, prod, cons,
               pushed, popped>>

VARIABLES
    traders         \* main(): the Trader objects, each with the position of its thread

VARIABLES
    callers,          \* the threads that call Accounts, each with its position
    stripe_mutexes_,  \* Accounts::stripe_mutexes_ : stripe -> holding thread, 0 if free
    reported          \* the trader ids for which a call has reported an account

VARIABLES
    ring,             \* a RingBuffer: [buffer_, head_, tail_, size_]
    ring_pushed,      \* the values its pushes have accepted since the last clear
    ring_popped,      \* the values its pops have returned since the last clear
    ring_ret          \* its last call: [op, ret, value]

VARIABLES
    observer          \* a third thread that calls size_approx() on the queue

engineVars == <<accounts_, stats_, events_processed_>>
runVars == <<running_, stop_requested, run_pc, processed>>

simVars == <<traders>>
accessVars == <<callers, stripe_mutexes_, reported>>
ringVars == <<ring, ring_pushed, ring_popped, ring_ret>>
observerVars == <<observer>>
otherVars == <<simVars, accessVars, ringVars, observerVars>>

nonQueueVars == <<bookVars, engineVars, runVars, otherVars>>
nonBookVars == <<queueVars, engineVars, runVars, otherVars>>

vars == <<bookVars, queueVars, engineVars, runVars, otherVars>>

(***************************************************************************)
(* Order, Trade, OrderResponse (order.hpp)                                 *)
(***************************************************************************)
\* a default-constructed Order; also the content of a slot that is not in use
NoOrder == [order_id |-> INVALID_ORDER_ID, trader_id |-> INVALID_TRADER_ID,
            side |-> "Buy", price |-> 0, qty_remaining |-> 0, qty_original |-> 0,
            next_idx |-> INVALID_POOL_INDEX, prev_idx |-> INVALID_POOL_INDEX]

Order(id, trader, s, p, qty) ==
    [order_id |-> id, trader_id |-> trader, side |-> s, price |-> p,
     qty_remaining |-> qty, qty_original |-> qty,
     next_idx |-> INVALID_POOL_INDEX, prev_idx |-> INVALID_POOL_INDEX]

Trade(maker_oid, taker_oid, maker_tid, taker_tid, p, q, taker_s) ==
    [maker_order_id |-> maker_oid, taker_order_id |-> taker_oid,
     maker_trader_id |-> maker_tid, taker_trader_id |-> taker_tid,
     price |-> p, qty |-> q, taker_side |-> taker_s]

OrderResponse(id) ==
    [result |-> "Rejected", order_id |-> id, qty_filled |-> 0,
     qty_remaining |-> 0, trade_count |-> 0]

(***************************************************************************)
(* ObjectPool<Order> (object_pool.hpp).  A pool value is                   *)
(* [storage, free_head, size].                                             *)
(***************************************************************************)
ObjectPool(capacity) ==
    [storage |-> [i \in 0..(capacity - 1) |->
                    [in_use |-> FALSE,
                     next_free |-> IF i + 1 < capacity THEN i + 1 ELSE INVALID_INDEX,
                     obj |-> NoOrder]],
     free_head |-> IF capacity > 0 THEN 0 ELSE INVALID_INDEX,
     size |-> 0]

\* an allocate that hands out the first slot again when none is free
allocate_over_first(pool, obj) ==
    LET idx == IF pool.free_head = INVALID_INDEX THEN 0 ELSE pool.free_head
        entry == pool.storage[idx]
    IN [pool |-> [storage |-> [pool.storage EXCEPT ![idx] =
                                  [entry EXCEPT !.obj = obj, !.in_use = TRUE]],
                  free_head |-> entry.next_free,
                  size |-> pool.size + 1],
        idx |-> idx]

\* allocate: [pool, idx]; idx = INVALID_INDEX and the pool unchanged when exhausted
allocate(pool, obj) ==
    IF pool.free_head = INVALID_INDEX
    THEN [pool |-> pool, idx |-> INVALID_INDEX]
    ELSE LET idx == pool.free_head
             entry == pool.storage[idx]
         IN [pool |-> [storage |-> [pool.storage EXCEPT ![idx] =
                                       [entry EXCEPT !.obj = obj, !.in_use = TRUE]],
                       free_head |-> entry.next_free,
                       size |-> pool.size + 1],
             idx |-> idx]

\* deallocate without --size_
deallocate_keeps_size(pool, index) ==
    [storage |-> [pool.storage EXCEPT ![index] =
                     [in_use |-> FALSE, next_free |-> pool.free_head, obj |-> NoOrder]],
     free_head |-> index,
     size |-> pool.size]

deallocate(pool, index) ==
    [storage |-> [pool.storage EXCEPT ![index] =
                     [in_use |-> FALSE, next_free |-> pool.free_head, obj |-> NoOrder]],
     free_head |-> index,
     size |-> pool.size - 1]

is_valid(pool, index) == index \in DOMAIN pool.storage /\ pool.storage[index].in_use

(***************************************************************************)
(* PriceLevel (price_level.hpp).  The operations take the level and the    *)
(* pool storage and give both back.                                        *)
(***************************************************************************)
PriceLevel(p) ==
    [price |-> p, total_qty |-> 0, order_count |-> 0,
     head_idx |-> INVALID_POOL_INDEX, tail_idx |-> INVALID_POOL_INDEX]

empty(level) == level.order_count = 0

push_back(level, storage, order_idx) ==
    LET s1 == [storage EXCEPT ![order_idx].obj.prev_idx = level.tail_idx,
                              ![order_idx].obj.next_idx = INVALID_POOL_INDEX]
        s2 == IF level.tail_idx # INVALID_POOL_INDEX
              THEN [s1 EXCEPT ![level.tail_idx].obj.next_idx = order_idx]
              ELSE s1
    IN [level |-> [level EXCEPT
                     !.head_idx = IF level.tail_idx # INVALID_POOL_INDEX
                                  THEN level.head_idx ELSE order_idx,
                     !.tail_idx = order_idx,
                     !.total_qty = level.total_qty + storage[order_idx].obj.qty_remaining,
                     !.order_count = level.order_count + 1],
        storage |-> s2]

remove(level, storage, order_idx) ==
    LET order == storage[order_idx].obj
        s1 == IF order.prev_idx # INVALID_POOL_INDEX
              THEN [storage EXCEPT ![order.prev_idx].obj.next_idx = order.next_idx]
              ELSE storage
        s2 == IF order.next_idx # INVALID_POOL_INDEX
              THEN [s1 EXCEPT ![order.next_idx].obj.prev_idx = order.prev_idx]
              ELSE s1
        s3 == [s2 EXCEPT ![order_idx].obj.prev_idx = INVALID_POOL_INDEX,
                         ![order_idx].obj.next_idx = INVALID_POOL_INDEX]
    IN [level |-> [level EXCEPT
                     !.head_idx = IF order.prev_idx # INVALID_POOL_INDEX
                                  THEN level.head_idx ELSE order.next_idx,
                     !.tail_idx = IF order.next_idx # INVALID_POOL_INDEX
                                  THEN level.tail_idx ELSE order.prev_idx,
                     !.total_qty = level.total_qty - order.qty_remaining,
                     !.order_count = level.order_count - 1],
        storage |-> s3]

\* front_idx giving the newest order of the level
front_idx_newest(level) == level.tail_idx

front_idx(level) == level.head_idx

\* reduce_qty leaving total_qty alone
reduce_qty_not(level, filled_qty) == level

reduce_qty(level, filled_qty) == [level EXCEPT !.total_qty = level.total_qty - filled_qty]

(***************************************************************************)
(* OrderBook (order_book.hpp, order_book.cpp).  A book value is            *)
(* [pool, order_map, bids, asks, total_trades, total_volume, queued].      *)
(***************************************************************************)
OrderBook(max_orders) ==
    [pool |-> ObjectPool(max_orders), order_map |-> <<>>, bids |-> <<>>, asks |-> <<>>,
     total_trades |-> 0, total_volume |-> 0,
     queued |-> [s \in Sides, p \in Prices |-> <<>>]]

Levels(b, s) == IF s = "Buy" THEN b.bids ELSE b.asks

WithLevels(b, s, levels) ==
    IF s = "Buy" THEN [b EXCEPT !.bids = levels] ELSE [b EXCEPT !.asks = levels]

\* std::vector::insert before position it, std::vector::erase at position it
InsertAt(seq, it, x) == SubSeq(seq, 1, it - 1) \o <<x>> \o SubSeq(seq, it, Len(seq))
EraseAt(seq, it) == SubSeq(seq, 1, it - 1) \o SubSeq(seq, it + 1, Len(seq))

\* std::unordered_map::erase(key) and operator[]=
MapErase(m, k) == [x \in (DOMAIN m) \ {k} |-> m[x]]
MapPut(m, k, v) == [x \in (DOMAIN m) \cup {k} |-> IF x = k THEN v ELSE m[x]]

\* the timestamp order of the resting orders: an order leaves, an order arrives
Unqueue(qd, order) ==
    [qd EXCEPT ![order.side, order.price] = SelectSeq(@, LAMBDA x : x # order.order_id)]
Enqueue(qd, order) ==
    [qd EXCEPT ![order.side, order.price] = Append(@, order.order_id)]

\* a comparator that sorts both sides with the lowest price first
LevelBefore_ascending(level, p, is_bid) == level.price < p

\* the comparator given to std::lower_bound
LevelBefore(level, p, is_bid) == IF is_bid THEN level.price > p ELSE level.price < p

\* std::lower_bound over positions first .. first + count - 1 (binary search)
RECURSIVE lower_bound(_, _, _, _, _)
lower_bound(levels, p, is_bid, first, count) ==
    IF count <= 0 THEN first
    ELSE LET step == count \div 2
             it == first + step
         IN IF LevelBefore(levels[it], p, is_bid)
            THEN lower_bound(levels, p, is_bid, it + 1, count - (step + 1))
            ELSE lower_bound(levels, p, is_bid, first, step)

\* [levels, it]: the level array, with the level inserted if new, and its position
find_or_create_level(levels, p, is_bid) ==
    LET it == lower_bound(levels, p, is_bid, 1, Len(levels))
    IN IF it <= Len(levels) /\ levels[it].price = p
       THEN [levels |-> levels, it |-> it]
       ELSE [levels |-> InsertAt(levels, it, PriceLevel(p)), it |-> it]

\* the position of the level, Len(levels) + 1 (levels.end()) when there is none
find_level(levels, p, is_bid) ==
    LET it == lower_bound(levels, p, is_bid, 1, Len(levels))
    IN IF it <= Len(levels) /\ levels[it].price = p THEN it ELSE Len(levels) + 1

\* remove_level_if_empty leaving the empty level in the array
remove_level_never(levels, it) == levels

remove_level_if_empty(levels, it) ==
    IF it # Len(levels) + 1 /\ empty(levels[it]) THEN EraseAt(levels, it) ELSE levels

\* a removal that unlinks the order and keeps its pool slot allocated
remove_order_internal_keeps_slot(b, pool_idx) ==
    LET order == b.pool.storage[pool_idx].obj
        levels == Levels(b, order.side)
        it == find_level(levels, order.price, order.side = "Buy")
        r == remove(levels[it], b.pool.storage, pool_idx)
        b1 == IF it # Len(levels) + 1
              THEN WithLevels([b EXCEPT !.pool.storage = r.storage], order.side,
                              remove_level_if_empty([levels EXCEPT ![it] = r.level], it))
              ELSE b
    IN [b1 EXCEPT !.queued = Unqueue(b1.queued, order)]

remove_order_internal(b, pool_idx) ==
    LET order == b.pool.storage[pool_idx].obj
        levels == Levels(b, order.side)
        it == find_level(levels, order.price, order.side = "Buy")
        r == remove(levels[it], b.pool.storage, pool_idx)
        b1 == IF it # Len(levels) + 1
              THEN WithLevels([b EXCEPT !.pool.storage = r.storage], order.side,
                              remove_level_if_empty([levels EXCEPT ![it] = r.level], it))
              ELSE b
    IN [b1 EXCEPT !.pool = deallocate(b1.pool, pool_idx),
                  !.queued = Unqueue(b1.queued, order)]

(***************************************************************************)
(* match_order.  tk is the taker: [order_id, trader_id, side, price,       *)
(* is_market]; st is the loop state: [b, remaining, trade_count, trades,   *)
(* seen], where trades are the Trade objects handed to emit_trade and seen *)
(* records, per trade, what the book looked like around the fill.          *)
(***************************************************************************)
\* the best price among the orders resting on side s, 0 when there is none
RestingOn(b, s) ==
    {i \in DOMAIN b.pool.storage :
        b.pool.storage[i].in_use /\ b.pool.storage[i].obj.side = s}

BestPriceOn(b, s) ==
    LET ps == {b.pool.storage[i].obj.price : i \in RestingOn(b, s)}
    IN IF ps = {} THEN 0
       ELSE CHOOSE p \in ps : \A q \in ps : IF s = "Buy" THEN q <= p ELSE q >= p

\* the id of the oldest order resting on side s at price p (INVALID when none)
OldestAt(b, s, p) ==
    IF <<s, p>> \in DOMAIN b.queued /\ b.queued[s, p] # <<>>
    THEN Head(b.queued[s, p]) ELSE INVALID_ORDER_ID

\* a price check that lets no limit order match
price_check_fails_always(tk, level) == ~tk.is_market

\* the price check for limit orders: TRUE when the level is not matchable
price_check_fails(tk, level) ==
    /\ ~tk.is_market
    /\ \/ tk.side = "Buy" /\ level.price > tk.price
       \/ tk.side = "Sell" /\ level.price < tk.price

\* a trade created at the taker's limit
trade_price_taker(maker, tk) == tk.price

\* the price a trade is created with
trade_price(maker, tk) == maker.price

\* a callback invoked after the filled maker has been removed
emit_trade_after_remove(updated, removed) == removed

\* the book on which emit_trade invokes the trade callback: `updated` is the
\* book after the maker's quantity, the level and the taker have been updated,
\* `removed` the book after the filled maker has been taken out
emit_trade(updated, removed) == updated

\* one iteration of the inner while loop
match_fill(st, tk, it) ==
    LET b == st.b
        opp == opposite(tk.side)
        level == Levels(b, opp)[it]
        maker_idx == front_idx(level)
        maker == b.pool.storage[maker_idx].obj
        fill_qty == Min2(st.remaining, maker.qty_remaining)
        trade == Trade(maker.order_id, tk.order_id, maker.trader_id, tk.trader_id,
                       trade_price(maker, tk), fill_qty, tk.side)
        \* update maker
        s1 == [b.pool.storage EXCEPT
                 ![maker_idx].obj.qty_remaining = maker.qty_remaining - fill_qty]
        level1 == reduce_qty(level, fill_qty)
        b1 == WithLevels([b EXCEPT !.pool.storage = s1,
                                   !.total_trades = b.total_trades + 1,
                                   !.total_volume = b.total_volume + fill_qty],
                         opp, [Levels(b, opp) EXCEPT ![it] = level1])
        \* remove maker if filled
        r == remove(level1, s1, maker_idx)
        b2 == IF maker.qty_remaining - fill_qty <= 0
              THEN LET b3 == WithLevels([b1 EXCEPT !.pool.storage = r.storage], opp,
                                        [Levels(b1, opp) EXCEPT ![it] = r.level])
                   IN [b3 EXCEPT !.order_map = MapErase(b3.order_map, maker.order_id),
                                 !.pool = deallocate(b3.pool, maker_idx),
                                 !.queued = Unqueue(b3.queued, maker)]
              ELSE b1
        \* what the trade callback can observe
        at == emit_trade(b1, b2)
        see == [maker_idx |-> maker_idx,
                level_pos |-> it,
                best_price |-> BestPriceOn(b, opp),
                oldest |-> OldestAt(b, opp, BestPriceOn(b, opp)),
                maker_in_use |-> is_valid(at.pool, maker_idx),
                maker_indexed |-> /\ maker.order_id \in DOMAIN at.order_map
                                  /\ at.order_map[maker.order_id] = maker_idx,
                maker_left |-> maker.qty_remaining - fill_qty]
    IN [b |-> b2,
        remaining |-> st.remaining - fill_qty,
        trade_count |-> st.trade_count + 1,
        trades |-> Append(st.trades, trade),
        seen |-> Append(st.seen, see)]

\* the inner while loop at the level at position it
RECURSIVE match_level(_, _, _)
match_level(st, tk, it) ==
    IF st.remaining > 0 /\ ~empty(Levels(st.b, opposite(tk.side))[it])
    THEN match_level(match_fill(st, tk, it), tk, it)
    ELSE st

\* the outer for loop, from position it; level_done is its tail, after the inner
\* while loop has left the state st1: erase the level if empty, or advance
RECURSIVE match_levels(_, _, _)
level_done(st1, tk, it) ==
    IF empty(Levels(st1.b, opposite(tk.side))[it])
    THEN match_levels([st1 EXCEPT !.b = WithLevels(st1.b, opposite(tk.side),
                          EraseAt(Levels(st1.b, opposite(tk.side)), it))], tk, it)
    ELSE match_levels(st1, tk, it + 1)

match_levels(st, tk, it) ==
    IF ~(it # Len(Levels(st.b, opposite(tk.side))) + 1 /\ st.remaining > 0) THEN st
    ELSE IF price_check_fails(tk, Levels(st.b, opposite(tk.side))[it]) THEN st
    ELSE level_done(match_level(st, tk, it), tk, it)

match_order(b, taker_order_id, taker_trader_id, s, p, qty, is_market) ==
    match_levels([b |-> b, remaining |-> qty, trade_count |-> 0,
                  trades |-> <<>>, seen |-> <<>>],
                 [order_id |-> taker_order_id, trader_id |-> taker_trader_id,
                  side |-> s, price |-> p, is_market |-> is_market], 1)

\* the query operations; 0 stands for std::nullopt
RECURSIVE first_nonempty(_, _)
first_nonempty(levels, it) ==
    IF it > Len(levels) THEN 0
    ELSE IF ~empty(levels[it]) THEN levels[it].price
    ELSE first_nonempty(levels, it + 1)

best_bid(b) == first_nonempty(b.bids, 1)
best_ask(b) == first_nonempty(b.asks, 1)
has_spread(b) == best_bid(b) # 0 /\ best_ask(b) # 0
spread(b) == best_ask(b) - best_bid(b)

(***************************************************************************)
(* The public operations.  Each gives [b, response, trades, seen].         *)
(***************************************************************************)
\* the result code without the test on trades
rested_result_accepted(trades) == "Accepted"

\* the result code add_limit_internal gives an order that came to rest
rested_result(trades) == IF trades > 0 THEN "PartiallyFilled" ELSE "Accepted"

\* add_limit_internal after match_order has given m: the response, and the
\* remainder put to rest
rest_order(m, order_id, trader_id, s, p, qty) ==
    LET remaining == m.remaining
        response == [OrderResponse(order_id) EXCEPT
                        !.trade_count = m.trade_count,
                        !.qty_filled = qty - remaining,
                        !.qty_remaining = remaining]
        a == allocate(m.b.pool, Order(order_id, trader_id, s, p, remaining))
        b1 == [m.b EXCEPT !.pool = a.pool,
                          !.order_map = MapPut(m.b.order_map, order_id, a.idx),
                          !.queued = Enqueue(m.b.queued,
                                         Order(order_id, trader_id, s, p, remaining))]
        f == find_or_create_level(Levels(b1, s), p, s = "Buy")
        pb == push_back(f.levels[f.it], b1.pool.storage, a.idx)
        b2 == WithLevels([b1 EXCEPT !.pool.storage = pb.storage], s,
                         [f.levels EXCEPT ![f.it] = pb.level])
    IN IF remaining <= 0
       THEN [b |-> m.b, response |-> [response EXCEPT !.result = "FullyFilled"],
             trades |-> m.trades, seen |-> m.seen]
       ELSE IF a.idx = INVALID_INDEX
       THEN [b |-> m.b, response |-> [response EXCEPT !.result = "Rejected"],
             trades |-> m.trades, seen |-> m.seen]
       ELSE [b |-> b2,
             response |-> [response EXCEPT !.result = rested_result(m.trade_count)],
             trades |-> m.trades, seen |-> m.seen]

add_limit_internal(b, order_id, trader_id, s, p, qty) ==
    IF order_id \in DOMAIN b.order_map
    THEN [b |-> b, response |-> OrderResponse(order_id), trades |-> <<>>, seen |-> <<>>]
    ELSE rest_order(match_order(b, order_id, trader_id, s, p, qty, FALSE),
                    order_id, trader_id, s, p, qty)

\* an add_limit that does not look the order id up
add_limit_unchecked(b, order_id, trader_id, s, p, qty) ==
    rest_order(match_order(b, order_id, trader_id, s, p, qty, FALSE),
               order_id, trader_id, s, p, qty)

add_limit(b, order_id, trader_id, s, p, qty) ==
    add_limit_internal(b, order_id, trader_id, s, p, qty)

\* add_market after match_order has given m
market_response(m, order_id, qty) ==
       [b |-> m.b,
        response |-> [OrderResponse(order_id) EXCEPT
                        !.trade_count = m.trade_count,
                        !.qty_filled = qty - m.remaining,
                        !.qty_remaining = m.remaining,
                        !.result = IF m.remaining <= 0 THEN "FullyFilled"
                                   ELSE "PartiallyFilled"],
        trades |-> m.trades, seen |-> m.seen]

\* a market order handled as a limit order at the most aggressive price
add_market_as_limit(b, order_id, trader_id, s, qty) ==
    add_limit_internal(b, order_id, trader_id, s,
                       IF s = "Buy" THEN MaxPrice ELSE 1, qty)

add_market(b, order_id, trader_id, s, qty) ==
    market_response(match_order(b, order_id, trader_id, s, 0, qty, TRUE), order_id, qty)

\* a cancel that reports every id as cancelled
cancel_always_cancelled(b, order_id) ==
    [b |-> b, response |-> [OrderResponse(order_id) EXCEPT !.result = "Cancelled"],
     trades |-> <<>>, seen |-> <<>>]

cancel(b, order_id) ==
    IF order_id \notin DOMAIN b.order_map
    THEN [b |-> b, response |-> [OrderResponse(order_id) EXCEPT !.result = "NotFound"],
          trades |-> <<>>, seen |-> <<>>]
    ELSE LET pool_idx == b.order_map[order_id]
             order == b.pool.storage[pool_idx].obj
             b1 == remove_order_internal(b, pool_idx)
         IN [b |-> [b1 EXCEPT !.order_map = MapErase(b1.order_map, order_id)],
             response |-> [OrderResponse(order_id) EXCEPT
                             !.qty_remaining = order.qty_remaining,
                             !.result = "Cancelled"],
             trades |-> <<>>, seen |-> <<>>]

\* every modify re-adds the order
keeps_priority_never(new_qty, order) == FALSE

\* an unchanged quantity keeps the order in place too
keeps_priority_on_equal(new_qty, order) == new_qty <= order.qty_remaining

\* modify keeps the order in place when this holds, and re-adds it otherwise
keeps_priority(new_qty, order) == new_qty < order.qty_remaining

modify(b, order_id, new_qty, new_price) ==
    IF order_id \notin DOMAIN b.order_map
    THEN [b |-> b, response |-> [OrderResponse(order_id) EXCEPT !.result = "NotFound"],
          trades |-> <<>>, seen |-> <<>>]
    ELSE
    LET pool_idx == b.order_map[order_id]
        order == b.pool.storage[pool_idx].obj
        \* cancel existing
        b1 == remove_order_internal(b, pool_idx)
        b2 == [b1 EXCEPT !.order_map = MapErase(b1.order_map, order_id)]
        \* reduce quantity, keep position
        levels == Levels(b, order.side)
        level_it == find_level(levels, order.price, order.side = "Buy")
        diff == order.qty_remaining - new_qty
        b3 == IF level_it # Len(levels) + 1
              THEN WithLevels(b, order.side,
                              [levels EXCEPT ![level_it] = reduce_qty(levels[level_it], diff)])
              ELSE b
        b4 == [b3 EXCEPT !.pool.storage[pool_idx].obj.qty_remaining = new_qty]
    IN IF new_price # 0 /\ new_price # order.price
       THEN add_limit_internal(b2, order_id, order.trader_id, order.side, new_price, new_qty)
       ELSE IF keeps_priority(new_qty, order)
       THEN [b |-> b4,
             response |-> [OrderResponse(order_id) EXCEPT
                             !.qty_remaining = new_qty, !.result = "Modified"],
             trades |-> <<>>, seen |-> <<>>]
       ELSE add_limit_internal(b2, order_id, order.trader_id, order.side,
                               order.price, new_qty)

(***************************************************************************)
(* The book as a state machine: any sequence of the four public calls.     *)
(***************************************************************************)
Book == [pool |-> [storage |-> storage_, free_head |-> free_head_, size |-> size_],
         order_map |-> order_map_, bids |-> bids_, asks |-> asks_,
         total_trades |-> total_trades_, total_volume |-> total_volume_,
         queued |-> queued]

SetBook(b) ==
    /\ storage_' = b.pool.storage
    /\ free_head_' = b.pool.free_head
    /\ size_' = b.pool.size
    /\ order_map_' = b.order_map
    /\ bids_' = b.bids
    /\ asks_' = b.asks
    /\ total_trades_' = b.total_trades
    /\ total_volume_' = b.total_volume
    /\ queued' = b.queued

BookInit ==
    /\ storage_ = OrderBook(MaxOrders).pool.storage
    /\ free_head_ = OrderBook(MaxOrders).pool.free_head
    /\ size_ = OrderBook(MaxOrders).pool.size
    /\ order_map_ = OrderBook(MaxOrders).order_map
    /\ bids_ = OrderBook(MaxOrders).bids
    /\ asks_ = OrderBook(MaxOrders).asks
    /\ total_trades_ = OrderBook(MaxOrders).total_trades
    /\ total_volume_ = OrderBook(MaxOrders).total_volume
    /\ queued = OrderBook(MaxOrders).queued

MayCall == total_trades_ < MaxTrades

AddLimit ==
    \E id \in OrderIds, t \in TraderIds, s \in Sides, p \in Prices, q \in Qtys :
        MayCall /\ SetBook(add_limit(Book, id, t, s, p, q).b)
        /\ UNCHANGED nonBookVars

AddMarket ==
    \E id \in OrderIds, t \in TraderIds, s \in Sides, q \in Qtys :
        MayCall /\ SetBook(add_market(Book, id, t, s, q).b)
        /\ UNCHANGED nonBookVars

Cancel ==
    \E id \in OrderIds :
        MayCall /\ SetBook(cancel(Book, id).b)
        /\ UNCHANGED nonBookVars

Modify ==
    \E id \in OrderIds, q \in Qtys, p \in 0..MaxPrice :
        MayCall /\ SetBook(modify(Book, id, q, p).b)
        /\ UNCHANGED nonBookVars

(***************************************************************************)
(* SpscSemaphoreQueue (spsc_semaphore_queue.hpp).  One producer thread and *)
(* one consumer thread; each line of a call that touches shared state is a *)
(* step of its own.                                                        *)
(***************************************************************************)
RECURSIVE Pow2(_)
Pow2(n) == IF n = 0 THEN 1 ELSE 2 * Pow2(n - 1)

Capacity == Pow2(CapacityLog2)
MASK == Capacity - 1

\* a & b on non-negative integers
RECURSIVE BitAnd(_, _)
BitAnd(a, b) ==
    IF a = 0 \/ b = 0 THEN 0
    ELSE (a % 2) * (b % 2) + 2 * BitAnd(a \div 2, b \div 2)

\* every index stored at the first slot
slot_of_first(index) == 0

\* the slot an index is stored at
slot_of(index) == BitAnd(index, MASK)

ProducerOps == {"push", "try_push", "try_push_for"}
ConsumerOps == {"pop", "try_pop", "try_pop_for"}

\* a thread that is in no call; ret is what its last call returned
Idle(th) == th.pc = "idle"

QueueInitOf(default) ==
    /\ buffer_ = [i \in 0..(Capacity - 1) |-> default]
    /\ head_ = 0
    /\ tail_ = 0
    /\ free_slots_ = Capacity
    /\ filled_slots_ = 0
    /\ prod = [pc |-> "idle", op |-> "none", value |-> default, head |-> 0,
               ret |-> "none"]
    /\ cons = [pc |-> "idle", op |-> "none", out |-> default, tail |-> 0,
               ret |-> "none"]
    /\ pushed = <<>>
    /\ popped = <<>>

\* the producer enters push / try_push / try_push_for with a value
ProdCall(op, value) ==
    /\ Idle(prod)
    /\ prod' = [prod EXCEPT !.pc = "acquire", !.op = op, !.value = value,
                            !.ret = "none"]
    /\ UNCHANGED nonQueueVars
    /\ UNCHANGED <<buffer_, head_, tail_, free_slots_, filled_slots_, cons,
                   pushed, popped>>

\* an acquire that does not wait for a free slot
ProdAcquire_no_wait ==
    /\ prod.pc = "acquire"
    /\ free_slots_' = free_slots_ - 1
    /\ prod' = [prod EXCEPT !.pc = "load"]
    /\ UNCHANGED nonQueueVars
    /\ UNCHANGED <<buffer_, head_, tail_, filled_slots_, cons, pushed, popped>>

\* free_slots_.acquire() / try_acquire() / try_acquire_for(): a slot is taken
ProdAcquire ==
    /\ prod.pc = "acquire"
    /\ free_slots_ > 0
    /\ free_slots_' = free_slots_ - 1
    /\ prod' = [prod EXCEPT !.pc = "load"]
    /\ UNCHANGED nonQueueVars
    /\ UNCHANGED <<buffer_, head_, tail_, filled_slots_, cons, pushed, popped>>

\* try_acquire() finds no slot, try_acquire_for() times out with no slot: the
\* call returns false
ProdAcquireFails ==
    /\ prod.pc = "acquire"
    /\ prod.op \in {"try_push", "try_push_for"}
    /\ free_slots_ = 0
    /\ prod' = [prod EXCEPT !.pc = "idle", !.ret = FALSE]
    /\ UNCHANGED nonQueueVars
    /\ UNCHANGED <<buffer_, head_, tail_, free_slots_, filled_slots_, cons,
                   pushed, popped>>

\* head = head_.value.load(relaxed)
ProdLoad ==
    /\ prod.pc = "load"
    /\ prod' = [prod EXCEPT !.pc = "write", !.head = head_]
    /\ UNCHANGED nonQueueVars
    /\ UNCHANGED <<buffer_, head_, tail_, free_slots_, filled_slots_, cons,
                   pushed, popped>>

\* buffer_[head & MASK] = value
ProdWrite ==
    /\ prod.pc = "write"
    /\ buffer_' = [buffer_ EXCEPT ![slot_of(prod.head)] = prod.value]
    /\ prod' = [prod EXCEPT !.pc = "store"]
    /\ UNCHANGED nonQueueVars
    /\ UNCHANGED <<head_, tail_, free_slots_, filled_slots_, cons, pushed, popped>>

\* head_.value.store(head + 1, release)
ProdStore ==
    /\ prod.pc = "store"
    /\ head_' = prod.head + 1
    /\ prod' = [prod EXCEPT !.pc = "release"]
    /\ UNCHANGED nonQueueVars
    /\ UNCHANGED <<buffer_, tail_, free_slots_, filled_slots_, cons, pushed, popped>>

\* filled_slots_.release(), and the call returns (true)
ProdRelease ==
    /\ prod.pc = "release"
    /\ filled_slots_' = filled_slots_ + 1
    /\ prod' = [prod EXCEPT !.pc = "idle", !.ret = TRUE]
    /\ pushed' = Append(pushed, prod.value)
    /\ UNCHANGED nonQueueVars
    /\ UNCHANGED <<buffer_, head_, tail_, free_slots_, cons, popped>>

\* the consumer enters pop / try_pop / try_pop_for
ConsCall(op) ==
    /\ Idle(cons)
    /\ cons' = [cons EXCEPT !.pc = "acquire", !.op = op, !.ret = "none"]
    /\ UNCHANGED nonQueueVars
    /\ UNCHANGED <<buffer_, head_, tail_, free_slots_, filled_slots_, prod,
                   pushed, popped>>

\* an acquire that does not wait for an element
ConsAcquire_no_wait ==
    /\ cons.pc = "acquire"
    /\ filled_slots_' = filled_slots_ - 1
    /\ cons' = [cons EXCEPT !.pc = "load"]
    /\ UNCHANGED nonQueueVars
    /\ UNCHANGED <<buffer_, head_, tail_, free_slots_, prod, pushed, popped>>

\* filled_slots_.acquire() / try_acquire() / try_acquire_for(): an element is taken
ConsAcquire ==
    /\ cons.pc = "acquire"
    /\ filled_slots_ > 0
    /\ filled_slots_' = filled_slots_ - 1
    /\ cons' = [cons EXCEPT !.pc = "load"]
    /\ UNCHANGED nonQueueVars
    /\ UNCHANGED <<buffer_, head_, tail_, free_slots_, prod, pushed, popped>>

\* a failing try_pop that leaves a default value in the caller's argument
ConsAcquireFails_clears_out ==
    /\ cons.pc = "acquire"
    /\ cons.op \in {"try_pop", "try_pop_for"}
    /\ filled_slots_ = 0
    /\ cons' = [cons EXCEPT !.pc = "idle", !.ret = FALSE, !.out = buffer_[slot_of(tail_)]]
    /\ UNCHANGED nonQueueVars
    /\ UNCHANGED <<buffer_, head_, tail_, free_slots_, filled_slots_, prod,
                   pushed, popped>>

\* try_acquire() finds no element, try_acquire_for() times out with none: the
\* call returns false
ConsAcquireFails ==
    /\ cons.pc = "acquire"
    /\ cons.op \in {"try_pop", "try_pop_for"}
    /\ filled_slots_ = 0
    /\ cons' = [cons EXCEPT !.pc = "idle", !.ret = FALSE]
    /\ UNCHANGED nonQueueVars
    /\ UNCHANGED <<buffer_, head_, tail_, free_slots_, filled_slots_, prod,
                   pushed, popped>>

\* tail = tail_.value.load(relaxed)
ConsLoad ==
    /\ cons.pc = "load"
    /\ cons' = [cons EXCEPT !.pc = "read", !.tail = tail_]
    /\ UNCHANGED nonQueueVars
    /\ UNCHANGED <<buffer_, head_, tail_, free_slots_, filled_slots_, prod,
                   pushed, popped>>

\* out = std::move(buffer_[tail & MASK])
ConsRead ==
    /\ cons.pc = "read"
    /\ cons' = [cons EXCEPT !.pc = "store", !.out = buffer_[slot_of(cons.tail)]]
    /\ UNCHANGED nonQueueVars
    /\ UNCHANGED <<buffer_, head_, tail_, free_slots_, filled_slots_, prod,
                   pushed, popped>>

\* tail_.value.store(tail + 1, release)
ConsStore ==
    /\ cons.pc = "store"
    /\ tail_' = cons.tail + 1
    /\ cons' = [cons EXCEPT !.pc = "release"]
    /\ UNCHANGED nonQueueVars
    /\ UNCHANGED <<buffer_, head_, free_slots_, filled_slots_, prod, pushed, popped>>

\* free_slots_.release(), and the call returns (true)
ConsRelease ==
    /\ cons.pc = "release"
    /\ free_slots_' = free_slots_ + 1
    /\ cons' = [cons EXCEPT !.pc = "idle", !.ret = TRUE]
    /\ popped' = Append(popped, cons.out)
    /\ UNCHANGED nonQueueVars
    /\ UNCHANGED <<buffer_, head_, tail_, filled_slots_, prod, pushed>>

\* std::counting_semaphore::try_acquire() may fail although the count is
\* positive ("an implementation may fail to decrement the counter even if it
\* is positive"): try_push returns false with a slot free
ProdAcquireSpurious ==
    /\ prod.pc = "acquire"
    /\ prod.op = "try_push"
    /\ free_slots_ > 0
    /\ prod' = [prod EXCEPT !.pc = "idle", !.ret = FALSE]
    /\ UNCHANGED nonQueueVars
    /\ UNCHANGED <<buffer_, head_, tail_, free_slots_, filled_slots_, cons,
                   pushed, popped>>

\* the same for try_pop, with an element stored
ConsAcquireSpurious ==
    /\ cons.pc = "acquire"
    /\ cons.op = "try_pop"
    /\ filled_slots_ > 0
    /\ cons' = [cons EXCEPT !.pc = "idle", !.ret = FALSE]
    /\ UNCHANGED nonQueueVars
    /\ UNCHANGED <<buffer_, head_, tail_, free_slots_, filled_slots_, prod,
                   pushed, popped>>

\* the steps of a push() that has been entered
PushStep == ProdAcquire \/ ProdLoad \/ ProdWrite \/ ProdStore \/ ProdRelease

ProducerStep == PushStep \/ ProdAcquireFails
ConsumerStep ==
    ConsAcquire \/ ConsAcquireFails \/ ConsLoad \/ ConsRead \/ ConsStore \/ ConsRelease

(***************************************************************************)
(* OrderEvent (order.hpp) and its factory methods                          *)
(***************************************************************************)
OrderEvent(type, id, trader, s, p, q) ==
    [type |-> type, order_id |-> id, trader_id |-> trader, side |-> s,
     price |-> p, qty |-> q]

DefaultEvent == OrderEvent("NewLimit", INVALID_ORDER_ID, INVALID_TRADER_ID, "Buy", 0, 0)

new_limit(id, trader, s, p, q) == OrderEvent("NewLimit", id, trader, s, p, q)
new_market(id, trader, s, q) == OrderEvent("NewMarket", id, trader, s, 0, q)
cancel_event(id) == OrderEvent("Cancel", id, INVALID_TRADER_ID, "Buy", 0, 0)
modify_event(id, new_qty, new_price) ==
    OrderEvent("Modify", id, INVALID_TRADER_ID, "Buy", new_price, new_qty)

(***************************************************************************)
(* Accounts (accounts.hpp, accounts.cpp).  accounts is the vector          *)
(* accounts_; an Account* is an index into it, 0 for nullptr.              *)
(***************************************************************************)
Account(id, balance) ==
    [trader_id |-> id, balance |-> balance, position |-> 0, trade_count |-> 0,
     volume |-> 0]

get(accounts, trader_id) ==
    LET hits == {i \in 1..Len(accounts) : accounts[i].trader_id = trader_id}
    IN  IF hits = {} THEN 0 ELSE CHOOSE i \in hits : \A j \in hits : i <= j

\* the vector after get_or_create: the returned pointer is get() of the result
get_or_create(accounts, trader_id, balance) ==
    IF get(accounts, trader_id) # 0 THEN accounts
    ELSE IF Len(accounts) >= max_traders THEN accounts
    ELSE Append(accounts, Account(trader_id, balance))

fetch_add(accounts, acc, field, amount) ==
    [accounts EXCEPT ![acc][field] = @ + amount]

\* a trade that books the taker's leg only
apply_trade_taker_only(accounts, maker_id, taker_id, taker_side, price, qty) ==
    LET taker == get(accounts, taker_id)
        notional == price * qty
        sign == IF taker_side = "Buy" THEN 1 ELSE 0 - 1
    IN  IF get(accounts, maker_id) = 0 \/ taker = 0 THEN accounts
        ELSE fetch_add(fetch_add(accounts, taker, "balance", (0 - sign) * notional),
                       taker, "position", sign * qty)

apply_trade(accounts, maker_id, taker_id, taker_side, price, qty) ==
    LET maker == get(accounts, maker_id)
        taker == get(accounts, taker_id)
        notional == price * qty
        qty_val == qty
        sign == IF taker_side = "Buy" THEN 1 ELSE 0 - 1
        a1 == fetch_add(accounts, taker, "balance", (0 - sign) * notional)
        a2 == fetch_add(a1, taker, "position", sign * qty_val)
        a3 == fetch_add(a2, maker, "balance", sign * notional)
        a4 == fetch_add(a3, maker, "position", (0 - sign) * qty_val)
        a5 == fetch_add(a4, maker, "trade_count", 1)
        a6 == fetch_add(a5, maker, "volume", qty_val)
        a7 == fetch_add(a6, taker, "trade_count", 1)
    IN  IF maker = 0 \/ taker = 0 THEN accounts
        ELSE fetch_add(a7, taker, "volume", qty_val)

\* a balance check that wants more than the required amount
has_sufficient_balance_strict(accounts, trader_id, required_amount) ==
    LET acc == get(accounts, trader_id)
    IN  IF acc = 0 THEN FALSE ELSE accounts[acc].balance > required_amount

has_sufficient_balance(accounts, trader_id, required_amount) ==
    LET acc == get(accounts, trader_id)
    IN  IF acc = 0 THEN FALSE ELSE accounts[acc].balance >= required_amount

get_balance(accounts, trader_id) ==
    LET acc == get(accounts, trader_id)
    IN  IF acc = 0 THEN 0 ELSE accounts[acc].balance

(***************************************************************************)
(* RiskChecker (risk.hpp), with the engine's RiskConfig                    *)
(***************************************************************************)
min_price == 1
max_price == MaxPrice
max_order_qty == MaxQty
\* below max_price * max_order_qty, as in RiskConfig's defaults
max_order_value == MaxPrice * MaxQty - 1
check_balance == TRUE

check(accounts, event) ==
    IF event.type = "Cancel" THEN "Passed"
    ELSE IF /\ event.type \in {"NewLimit", "Modify"}
            /\ (event.price < min_price \/ event.price > max_price)
         THEN "InvalidPrice"
    ELSE IF event.qty <= 0 \/ event.qty > max_order_qty THEN "InvalidQty"
    ELSE IF event.price * event.qty > max_order_value THEN "ExceedsMaxOrderValue"
    ELSE IF /\ check_balance
            /\ event.side = "Buy"
            /\ ~has_sufficient_balance(accounts, event.trader_id,
                                       event.price * event.qty)
         THEN "InsufficientBalance"
    ELSE "Passed"

(***************************************************************************)
(* MatchingEngine (matching_engine.hpp).  An engine value is               *)
(* [b, accounts, stats, events_processed].                                 *)
(***************************************************************************)
EngineStats == [trade_count |-> 0, volume |-> 0, rejected_count |-> 0, filled_qty |-> 0]

MatchingEngine(max_orders) ==
    [b |-> OrderBook(max_orders), accounts |-> <<>>, stats |-> EngineStats,
     events_processed |-> 0]

\* a trade callback that counts the trade and not its quantity
on_trade_counts_only(e, trade) ==
    [e EXCEPT !.accounts = apply_trade(@, trade.maker_trader_id, trade.taker_trader_id,
                                       trade.taker_side, trade.price, trade.qty),
              !.stats.trade_count = @ + 1]

\* the trade callback the engine gives to the book
on_trade(e, trade) ==
    [e EXCEPT !.accounts = apply_trade(@, trade.maker_trader_id, trade.taker_trader_id,
                                       trade.taker_side, trade.price, trade.qty),
              !.stats.trade_count = @ + 1,
              !.stats.volume = @ + trade.qty]

\* the trade callback ran for the first n trades of a book call
RECURSIVE on_trades(_, _, _)
on_trades(e, trades, n) ==
    IF n = 0 THEN e ELSE on_trade(on_trades(e, trades, n - 1), trades[n])

success(response) == response.result \notin {"Rejected", "NotFound"}

\* the switch of process_event: the book call of the event
dispatch(b, event) ==
    CASE event.type = "NewLimit" ->
            add_limit(b, event.order_id, event.trader_id, event.side, event.price,
                      event.qty)
      [] event.type = "NewMarket" ->
            add_market(b, event.order_id, event.trader_id, event.side, event.qty)
      [] event.type = "Cancel" -> cancel(b, event.order_id)
      [] event.type = "Modify" -> modify(b, event.order_id, event.qty, event.price)

\* process_event from the book call r on: the callbacks, then the stats
count_event(e, r) ==
    [on_trades([e EXCEPT !.b = r.b], r.trades, Len(r.trades))
        EXCEPT !.events_processed = @ + 1,
               !.stats.filled_qty =
                   IF success(r.response) /\ r.response.qty_filled > 0
                   THEN @ + r.response.qty_filled ELSE @]

\* a risk gate that counts the rejection and lets the event through
risk_gate_lets_through(e, event) ==
    IF check(e.accounts, event) # "Passed"
    THEN [count_event(e, dispatch(e.b, event)) EXCEPT !.stats.rejected_count = @ + 1]
    ELSE count_event(e, dispatch(e.b, event))

\* process_event from the risk check on
risk_gate(e, event) ==
    IF check(e.accounts, event) # "Passed"
    THEN [e EXCEPT !.stats.rejected_count = @ + 1]
    ELSE count_event(e, dispatch(e.b, event))

\* process_event up to the risk check: the trader's account is looked for
ensure_account(e, event) ==
    IF event.type # "Cancel"
    THEN [e EXCEPT !.accounts = get_or_create(@, event.trader_id, initial_balance)]
    ELSE e

process_event(e, event) == risk_gate(ensure_account(e, event), event)

(***************************************************************************)
(* The specifications                                                      *)
(***************************************************************************)
Engine ==
    [b |-> Book, accounts |-> accounts_, stats |-> stats_,
     events_processed |-> events_processed_]

SetEngine(e) ==
    /\ SetBook(e.b)
    /\ accounts_' = e.accounts
    /\ stats_' = e.stats
    /\ events_processed_' = e.events_processed

EngineInit ==
    /\ BookInit
    /\ accounts_ = MatchingEngine(MaxOrders).accounts
    /\ stats_ = MatchingEngine(MaxOrders).stats
    /\ events_processed_ = MatchingEngine(MaxOrders).events_processed
    /\ running_ = FALSE
    /\ stop_requested = FALSE
    /\ run_pc = "start"
    /\ processed = <<>>

\* the book alone: any sequence of its four public calls
Next == AddLimit \/ AddMarket \/ Cancel \/ Modify

\* the queue carries integers
\* no simulator around the engine
NoTraders == traders = <<>>

\* no thread but the engine's calls Accounts
NoCallers == callers = <<>> /\ stripe_mutexes_ = <<>> /\ reported = {}

\* the third thread is outside size_approx() and has not called it yet
IdleObserver ==
    [pc |-> "idle", head |-> 0, ret |-> 0, calls |-> 0, quiet |-> TRUE, pushes |-> 0,
     pops |-> 0]
NoObserver == observer = IdleObserver

\* no RingBuffer is constructed
NoRing == ring = <<>> /\ ring_pushed = <<>> /\ ring_popped = <<>> /\ ring_ret = <<>>

Init ==
    EngineInit /\ QueueInitOf(0) /\ NoTraders /\ NoCallers /\ NoRing /\ NoObserver

Spec == Init /\ [][Next]_vars

\* the queue alone: the producer pushes 1, 2, 3, ... by any of its three calls,
\* the consumer pops by any of its three calls
QueueProducer ==
    \/ \E op \in ProducerOps :
          Len(pushed) < MaxPushes /\ ProdCall(op, Len(pushed) + 1)
    \/ ProducerStep
    \/ ProdAcquireSpurious

QueueConsumer ==
    \/ \E op \in ConsumerOps : ConsCall(op)
    \/ ConsumerStep
    \/ ConsAcquireSpurious

QueueNext == QueueProducer \/ QueueConsumer

SpecQueue == Init /\ [][QueueNext]_vars

\* the same with both threads scheduled: a thread that can take a step of
\* its call takes it in the end (a blocked acquire() is woken by release())
SpecQueueFair ==
    Init /\ [][QueueNext]_vars /\ WF_vars(ProducerStep) /\ WF_vars(ConsumerStep)

(***************************************************************************)
(* size_approx() called from a third thread while the producer and the     *)
(* consumer run (spsc_semaphore_queue.hpp).  std::size_t is SizeWidth bits *)
(* wide.                                                                   *)
(***************************************************************************)
\* head - tail in std::size_t
size_sub(a, b) == (a - b) % Pow2(SizeWidth)

observedFrame ==
    <<bookVars, queueVars, engineVars, runVars, simVars, accessVars, ringVars>>

\* std::size_t head = head_.value.load(acquire); the model notes what the
\* other threads have done so far
SizeApproxLoadHead ==
    /\ observer.pc = "idle"
    /\ observer.calls < MaxObserverCalls
    /\ observer' = [pc |-> "tail", head |-> head_, ret |-> 0,
                    calls |-> observer.calls + 1,
                    quiet |-> Idle(prod) /\ Idle(cons),
                    pushes |-> Len(pushed), pops |-> Len(popped)]
    /\ UNCHANGED observedFrame

\* std::size_t tail = tail_.value.load(acquire); return head - tail;
SizeApproxLoadTail ==
    /\ observer.pc = "tail"
    /\ observer' = [observer EXCEPT
                       !.pc = "idle",
                       !.ret = size_sub(observer.head, tail_),
                       !.quiet = /\ observer.quiet
                                 /\ Idle(prod) /\ Idle(cons)
                                 /\ Len(pushed) = observer.pushes
                                 /\ Len(popped) = observer.pops]
    /\ UNCHANGED observedFrame

QueueObserver == SizeApproxLoadHead \/ SizeApproxLoadTail

ObservedNext == QueueProducer \/ QueueConsumer \/ QueueObserver

SpecQueueObserved == Init /\ [][ObservedNext]_vars

\* the engine alone: process_event called directly, one event after another
EngineTraderIds == 0..MaxEngineTraderId
NewLimitEvents ==
    {new_limit(id, t, s, p, q) :
        id \in OrderIds, t \in EngineTraderIds, s \in Sides, p \in 0..MaxPrice,
        q \in Qtys}
NewMarketEvents ==
    {new_market(id, t, s, q) :
        id \in OrderIds, t \in EngineTraderIds, s \in Sides, q \in Qtys}
CancelEvents == {cancel_event(id) : id \in OrderIds}
ModifyEvents ==
    {modify_event(id, q, p) : id \in OrderIds, q \in Qtys, p \in 0..MaxPrice}
Events == NewLimitEvents \cup NewMarketEvents \cup CancelEvents \cup ModifyEvents

MayProcess == events_processed_ + stats_.rejected_count < MaxEvents

ProcessNewLimit ==
    \E event \in NewLimitEvents :
        /\ MayProcess
        /\ SetEngine(process_event(Engine, event))
        /\ UNCHANGED <<queueVars, runVars, otherVars>>

ProcessNewMarket ==
    \E event \in NewMarketEvents :
        /\ MayProcess
        /\ SetEngine(process_event(Engine, event))
        /\ UNCHANGED <<queueVars, runVars, otherVars>>

ProcessCancel ==
    \E event \in CancelEvents :
        /\ MayProcess
        /\ SetEngine(process_event(Engine, event))
        /\ UNCHANGED <<queueVars, runVars, otherVars>>

ProcessModify ==
    \E event \in ModifyEvents :
        /\ MayProcess
        /\ SetEngine(process_event(Engine, event))
        /\ UNCHANGED <<queueVars, runVars, otherVars>>

EngineNext == ProcessNewLimit \/ ProcessNewMarket \/ ProcessCancel \/ ProcessModify

\* the queue carries order events
InitEvents ==
    /\ EngineInit /\ QueueInitOf(DefaultEvent) /\ NoTraders /\ NoCallers /\ NoRing
    /\ NoObserver

SpecEngine == InitEvents /\ [][EngineNext]_vars

(***************************************************************************)
(* The running engine: a producer thread pushes events, the engine thread  *)
(* executes run(), and the stop is requested once the producer is through, *)
(* as in MatchingEngineTest.ThreadedProcessing and in main().  Here        *)
(* try_pop fails only on an empty queue: what is refuted under this        *)
(* specification is refuted without a spurious failure of try_acquire().   *)
(***************************************************************************)
\* the events the producer chooses from
RunEvents ==
    {new_limit(1, 0, "Sell", 1, 1), new_limit(2, 1, "Buy", 1, 1),
     new_limit(3, 0, "Buy", 0, 1), new_market(3, 1, "Sell", 0),
     cancel_event(1), modify_event(2, 1, 2)}

RunProducerPush ==
    \E event \in RunEvents :
        /\ ~stop_requested
        /\ Len(pushed) < MaxRunEvents
        /\ ProdCall("push", event)

\* request_stop(), after the last push has returned
RequestStop ==
    /\ Idle(prod)
    /\ ~stop_requested
    /\ stop_requested' = TRUE
    /\ UNCHANGED <<otherVars, bookVars, queueVars, engineVars, running_, run_pc, processed>>

\* running_.store(true)
RunStart ==
    /\ run_pc = "start"
    /\ running_' = TRUE
    /\ run_pc' = "loop"
    /\ UNCHANGED <<otherVars, bookVars, queueVars, engineVars, stop_requested, processed>>

\* a run() that returns at the stop request without draining
RunLoop_no_drain ==
    /\ run_pc = "loop"
    /\ Idle(cons)
    /\ IF stop_requested
       THEN /\ running_' = FALSE
            /\ run_pc' = "done"
            /\ cons' = cons
       ELSE /\ running_' = running_
            /\ run_pc' = "popped"
            /\ cons' = [cons EXCEPT !.pc = "acquire", !.ret = "none",
                                    !.op = "try_pop_for"]
    /\ UNCHANGED <<otherVars, bookVars, engineVars, stop_requested, processed>>
    /\ UNCHANGED <<buffer_, head_, tail_, free_slots_, filled_slots_, prod, pushed,
                   popped>>

\* a loop that does not look at the stop token
RunLoop_ignores_stop ==
    /\ run_pc = "loop"
    /\ Idle(cons)
    /\ cons' = [cons EXCEPT !.pc = "acquire", !.ret = "none", !.op = "try_pop_for"]
    /\ run_pc' = "popped"
    /\ UNCHANGED <<otherVars, bookVars, engineVars, running_, stop_requested, processed>>
    /\ UNCHANGED <<buffer_, head_, tail_, free_slots_, filled_slots_, prod, pushed,
                   popped>>

\* while (!stop_requested()): enter try_pop_for; otherwise enter the drain
RunLoop ==
    /\ run_pc = "loop"
    /\ Idle(cons)
    /\ cons' = [cons EXCEPT !.pc = "acquire", !.ret = "none",
                            !.op = IF stop_requested THEN "try_pop" ELSE "try_pop_for"]
    /\ run_pc' = IF stop_requested THEN "drain" ELSE "popped"
    /\ UNCHANGED <<otherVars, bookVars, engineVars, running_, stop_requested, processed>>
    /\ UNCHANGED <<buffer_, head_, tail_, free_slots_, filled_slots_, prod, pushed,
                   popped>>

\* try_pop_for returned false: continue
RunContinue ==
    /\ run_pc = "popped"
    /\ Idle(cons)
    /\ cons.ret = FALSE
    /\ run_pc' = "loop"
    /\ UNCHANGED <<otherVars, bookVars, queueVars, engineVars, running_, stop_requested,
                   processed>>

\* try_pop_for returned true: process_event(event)
RunProcess ==
    /\ run_pc = "popped"
    /\ Idle(cons)
    /\ cons.ret = TRUE
    /\ SetEngine(process_event(Engine, cons.out))
    /\ processed' = Append(processed, [event |-> cons.out, in_drain |-> FALSE])
    /\ run_pc' = "loop"
    /\ UNCHANGED <<otherVars, queueVars, running_, stop_requested>>

\* while (try_pop(event)) process_event(event): the body, and try_pop again
RunDrainProcess ==
    /\ run_pc = "drain"
    /\ Idle(cons)
    /\ cons.ret = TRUE
    /\ SetEngine(process_event(Engine, cons.out))
    /\ cons' = [cons EXCEPT !.pc = "acquire", !.ret = "none", !.op = "try_pop"]
    /\ processed' = Append(processed, [event |-> cons.out, in_drain |-> TRUE])
    /\ UNCHANGED <<otherVars, running_, stop_requested, run_pc>>
    /\ UNCHANGED <<buffer_, head_, tail_, free_slots_, filled_slots_, prod, pushed,
                   popped>>

\* try_pop returned false: running_.store(false), and run() returns
RunFinish ==
    /\ run_pc = "drain"
    /\ Idle(cons)
    /\ cons.ret = FALSE
    /\ running_' = FALSE
    /\ run_pc' = "done"
    /\ UNCHANGED <<otherVars, bookVars, queueVars, engineVars, stop_requested, processed>>

RunNext ==
    \/ RunProducerPush \/ PushStep \/ RequestStop
    \/ RunStart \/ RunLoop \/ ConsumerStep
    \/ RunContinue \/ RunProcess \/ RunDrainProcess \/ RunFinish

SpecRun == InitEvents /\ [][RunNext]_vars

\* The run with the engine thread scheduled: the thread takes its next step
\* in the end (try_pop_for returns after its timeout at the latest, and
\* process_event returns).  The return of process_event is stated on run_pc
\* and on cons, which only the steps RunProcess and RunDrainProcess change
\* in this way.
EngineThreadStep ==
    RunStart \/ RunLoop \/ ConsumerStep \/ RunContinue \/ RunFinish

ProcessReturns ==
    /\ run_pc = "popped" /\ Idle(cons) /\ cons.ret = TRUE
    /\ run_pc' = "loop"

DrainProcessReturns ==
    /\ run_pc = "drain" /\ Idle(cons) /\ cons.ret = TRUE
    /\ cons' = [cons EXCEPT !.pc = "acquire", !.ret = "none", !.op = "try_pop"]

SpecRunFair ==
    /\ InitEvents /\ [][RunNext]_vars
    /\ WF_vars(EngineThreadStep)
    /\ WF_run_pc(ProcessReturns)
    /\ WF_cons(DrainProcessReturns)

(***************************************************************************)
(* The simulator (main.cpp): main() starts the engine thread on run(),     *)
(* makes T Trader objects on the one queue, starts a thread on each        *)
(* Trader::run, joins them, and then requests the engine to stop.          *)
(***************************************************************************)
\* trader_config.orders_to_generate of the i-th trader (i from 0)
orders_to_generate(i, T) ==
    (MaxSimOrders \div T) + (IF i = 0 THEN MaxSimOrders % T ELSE 0)

\* next_order_id at the construction of the i-th trader
RECURSIVE starting_order_id(_, _)
starting_order_id(i, T) ==
    IF i = 0 THEN 1 ELSE starting_order_id(i - 1, T) + orders_to_generate(i - 1, T)

Trader(i, T) ==
    [trader_id |-> i, orders_to_generate |-> orders_to_generate(i, T),
     next_order_id_ |-> starting_order_id(i, T), sent_order_ids_ |-> <<>>,
     orders_sent_ |-> 0, pc |-> "loop", event |-> DefaultEvent, head |-> 0,
     raced |-> FALSE]

\* what generate_order can return: a cancel or a modify of an order sent
\* before, or a new limit or market order with the next order id
generate_order(tr) ==
    {cancel_event(tr.sent_order_ids_[k]) : k \in 1..Len(tr.sent_order_ids_)}
    \cup {modify_event(tr.sent_order_ids_[k], 1, 1) : k \in 1..Len(tr.sent_order_ids_)}
    \cup {new_limit(tr.next_order_id_, tr.trader_id, s, 1, 1) : s \in Sides}
    \cup {new_market(tr.next_order_id_, tr.trader_id, "Buy", 1)}

SimInit ==
    /\ EngineInit
    /\ QueueInitOf(DefaultEvent)
    /\ \E T \in 1..MaxSimTraders : traders = [i \in 1..T |-> Trader(i - 1, T)]
    /\ NoCallers
    /\ NoRing
    /\ NoObserver

simFrame ==
    <<bookVars, engineVars, runVars, accessVars, ringVars, observerVars, prod, cons,
      popped>>

\* while (... orders_sent_ < orders_to_generate): generate_order, enter push
TraderGenerate ==
    \E i \in DOMAIN traders : \E event \in generate_order(traders[i]) :
        /\ traders[i].pc = "loop"
        /\ traders[i].orders_sent_ < traders[i].orders_to_generate
        /\ traders' = [traders EXCEPT
              ![i].pc = "acquire", ![i].event = event,
              ![i].next_order_id_ =
                  IF event.type \in {"NewLimit", "NewMarket"} THEN @ + 1 ELSE @]
        /\ UNCHANGED <<simFrame, buffer_, head_, tail_, free_slots_, filled_slots_,
                       pushed>>

\* the loop ends: running_.store(false), and the thread can be joined
TraderExit ==
    \E i \in DOMAIN traders :
        /\ traders[i].pc = "loop"
        /\ traders[i].orders_sent_ >= traders[i].orders_to_generate
        /\ traders' = [traders EXCEPT ![i].pc = "done"]
        /\ UNCHANGED <<simFrame, buffer_, head_, tail_, free_slots_, filled_slots_,
                       pushed>>

\* push: free_slots_.acquire()
TraderAcquire ==
    \E i \in DOMAIN traders :
        /\ traders[i].pc = "acquire"
        /\ free_slots_ > 0
        /\ free_slots_' = free_slots_ - 1
        /\ traders' = [traders EXCEPT ![i].pc = "load"]
        /\ UNCHANGED <<simFrame, buffer_, head_, tail_, filled_slots_, pushed>>

\* push: head = head_.value.load(relaxed)
TraderLoad ==
    \E i \in DOMAIN traders :
        /\ traders[i].pc = "load"
        /\ traders' = [traders EXCEPT ![i].pc = "write", ![i].head = head_]
        /\ UNCHANGED <<simFrame, buffer_, head_, tail_, free_slots_, filled_slots_,
                       pushed>>

\* what an object can hold or give when it is assigned or read while
\* another thread assigns to it (a data race on a plain object): each field
\* from the one value or from the other
Mixes(event, old) ==
    {[type |-> a.type, order_id |-> b.order_id, trader_id |-> c.trader_id,
      side |-> d.side, price |-> e.price, qty |-> f.qty] :
        a \in {event, old}, b \in {event, old}, c \in {event, old},
        d \in {event, old}, e \in {event, old}, f \in {event, old}}

\* the threads other than i that are assigning to the slot of the index head
WritersOf(head, i) ==
    {j \in DOMAIN traders \ {i} :
        traders[j].pc = "write" /\ slot_of(traders[j].head) = slot_of(head)}

\* push: buffer_[head & MASK] = value.  An assignment that ran while another
\* thread assigned to the same slot leaves a mix of its event with what the
\* other left; the threads still assigning have raced with this one.
TraderWrite ==
    \E i \in DOMAIN traders :
        /\ traders[i].pc = "write"
        /\ \E stored \in IF traders[i].raced
                         THEN Mixes(traders[i].event, buffer_[slot_of(traders[i].head)])
                         ELSE {traders[i].event} :
              buffer_' = [buffer_ EXCEPT ![slot_of(traders[i].head)] = stored]
        /\ traders' = [j \in DOMAIN traders |->
              IF j = i THEN [traders[j] EXCEPT !.pc = "store", !.raced = FALSE]
              ELSE IF j \in WritersOf(traders[i].head, i)
                   THEN [traders[j] EXCEPT !.raced = TRUE]
                   ELSE traders[j]]
        /\ UNCHANGED <<simFrame, head_, tail_, free_slots_, filled_slots_, pushed>>

\* push: head_.value.store(head + 1, release)
TraderStore ==
    \E i \in DOMAIN traders :
        /\ traders[i].pc = "store"
        /\ head_' = traders[i].head + 1
        /\ traders' = [traders EXCEPT ![i].pc = "release"]
        /\ UNCHANGED <<simFrame, buffer_, tail_, free_slots_, filled_slots_, pushed>>

\* push: filled_slots_.release(); then the order id is kept for a later
\* cancel or modify, and orders_sent_ is counted up
TraderRelease ==
    \E i \in DOMAIN traders :
        /\ traders[i].pc = "release"
        /\ filled_slots_' = filled_slots_ + 1
        /\ pushed' = Append(pushed, traders[i].event)
        /\ traders' = [traders EXCEPT
              ![i].pc = "loop",
              ![i].sent_order_ids_ =
                  IF traders[i].event.type \in {"NewLimit", "NewMarket"}
                  THEN Append(@, traders[i].event.order_id) ELSE @,
              ![i].orders_sent_ = @ + 1]
        /\ UNCHANGED <<simFrame, buffer_, head_, tail_, free_slots_>>

\* the engine thread's out = std::move(buffer_[tail & MASK]), which gives a
\* mix when a trader thread is assigning to that slot
SimConsRead ==
    /\ cons.pc = "read"
    /\ \E out \in {buffer_[slot_of(cons.tail)]} \cup
                   UNION {Mixes(traders[j].event, buffer_[slot_of(cons.tail)]) :
                             j \in WritersOf(cons.tail, 0)} :
          cons' = [cons EXCEPT !.pc = "store", !.out = out]
    /\ UNCHANGED nonQueueVars
    /\ UNCHANGED <<buffer_, head_, tail_, free_slots_, filled_slots_, prod,
                   pushed, popped>>

SimConsumerStep ==
    ConsAcquire \/ ConsAcquireFails \/ ConsLoad \/ SimConsRead \/ ConsStore
    \/ ConsRelease

\* main(): every trader thread is joined, then engine_thread.request_stop()
SimRequestStop ==
    /\ \A i \in DOMAIN traders : traders[i].pc = "done"
    /\ ~stop_requested
    /\ stop_requested' = TRUE
    /\ UNCHANGED <<otherVars, bookVars, queueVars, engineVars, running_, run_pc,
                   processed>>

SimNext ==
    \/ TraderGenerate \/ TraderExit \/ TraderAcquire \/ TraderLoad \/ TraderWrite
    \/ TraderStore \/ TraderRelease \/ SimRequestStop
    \/ RunStart \/ RunLoop \/ SimConsumerStep
    \/ RunContinue \/ RunProcess \/ RunDrainProcess \/ RunFinish

SpecSim == SimInit /\ [][SimNext]_vars

(***************************************************************************)
(* Accounts called from several threads (accounts.cpp): create_account and *)
(* get_or_create, each step of a call by itself.  A call holds the mutex   *)
(* of its trader's stripe, not one mutex for the vector accounts_.         *)
(***************************************************************************)
AccountTraderIds == 0..MaxAccountTraderId
AccountOps == {"create_account", "get_or_create"}

stripe_index(trader_id) == trader_id % stripe_count

IdleCaller == [pc |-> "idle", op |-> "none", trader_id |-> 0, n |-> 0, calls |-> 0]

AccountsInit ==
    /\ EngineInit
    /\ QueueInitOf(0)
    /\ NoTraders
    /\ callers = [t \in 1..MaxCallers |-> IdleCaller]
    /\ stripe_mutexes_ = [s \in 0..(stripe_count - 1) |-> 0]
    /\ reported = {}
    /\ NoRing
    /\ NoObserver

accFrame ==
    <<bookVars, queueVars, stats_, events_processed_, runVars, simVars, ringVars,
      observerVars>>

\* a thread calls create_account(trader_id, initial_balance), which begins
\* with the lock, or get_or_create(trader_id, initial_balance), which begins
\* with the scan
AccCall ==
    \E t \in DOMAIN callers, op \in AccountOps, id \in AccountTraderIds :
        /\ callers[t].pc = "idle"
        /\ callers[t].calls < MaxAccountCalls
        /\ callers' = [callers EXCEPT ![t] =
              [pc |-> IF op = "create_account" THEN "lock" ELSE "scan", op |-> op,
               trader_id |-> id, n |-> 0, calls |-> @.calls + 1]]
        /\ UNCHANGED <<accFrame, accounts_, stripe_mutexes_, reported>>

\* get_or_create: the scan without the lock; a hit is returned
AccScan ==
    \E t \in DOMAIN callers :
        /\ callers[t].pc = "scan"
        /\ IF get(accounts_, callers[t].trader_id) # 0
           THEN /\ callers' = [callers EXCEPT ![t].pc = "idle"]
                /\ reported' = reported \cup {callers[t].trader_id}
           ELSE /\ callers' = [callers EXCEPT ![t].pc = "lock"]
                /\ reported' = reported
        /\ UNCHANGED <<accFrame, accounts_, stripe_mutexes_>>

\* std::lock_guard lock(get_mutex(trader_id))
AccLock ==
    \E t \in DOMAIN callers :
        /\ callers[t].pc = "lock"
        /\ stripe_mutexes_[stripe_index(callers[t].trader_id)] = 0
        /\ stripe_mutexes_' =
              [stripe_mutexes_ EXCEPT ![stripe_index(callers[t].trader_id)] = t]
        /\ callers' = [callers EXCEPT ![t].pc = "check"]
        /\ UNCHANGED <<accFrame, accounts_, reported>>

\* under the lock: the scan and the capacity check.  An existing account
\* ends the call (create_account returns false, get_or_create the account),
\* a full vector ends it with false / nullptr; the lock is released.
AccCheck ==
    \E t \in DOMAIN callers :
        /\ callers[t].pc = "check"
        /\ IF get(accounts_, callers[t].trader_id) # 0
           THEN /\ callers' = [callers EXCEPT ![t].pc = "idle"]
                /\ stripe_mutexes_' =
                      [stripe_mutexes_ EXCEPT ![stripe_index(callers[t].trader_id)] = 0]
                /\ reported' = IF callers[t].op = "get_or_create"
                               THEN reported \cup {callers[t].trader_id}
                               ELSE reported
           ELSE IF Len(accounts_) >= max_traders
           THEN /\ callers' = [callers EXCEPT ![t].pc = "idle"]
                /\ stripe_mutexes_' =
                      [stripe_mutexes_ EXCEPT ![stripe_index(callers[t].trader_id)] = 0]
                /\ reported' = reported
           ELSE /\ callers' = [callers EXCEPT ![t].pc = "push_back"]
                /\ UNCHANGED <<stripe_mutexes_, reported>>
        /\ UNCHANGED <<accFrame, accounts_>>

\* accounts_.push_back(...): the vector's end is read
AccPushBack ==
    \E t \in DOMAIN callers :
        /\ callers[t].pc = "push_back"
        /\ callers' = [callers EXCEPT ![t].pc = "store", ![t].n = Len(accounts_)]
        /\ UNCHANGED <<accFrame, accounts_, stripe_mutexes_, reported>>

\* the vector after a push_back that found its end at n: the element is
\* stored there and the end is moved behind it; what another thread has
\* put there in between is overwritten
pushed_back(accounts, n, account) ==
    IF n <= Len(accounts) THEN Append(SubSeq(accounts, 1, n), account)
    ELSE accounts \o [k \in 1..(n - Len(accounts)) |-> Account(INVALID_TRADER_ID, 0)]
                  \o <<account>>

\* accounts_.push_back(...): the element is stored and the end is moved
AccStore ==
    \E t \in DOMAIN callers :
        /\ callers[t].pc = "store"
        /\ accounts_' = pushed_back(accounts_, callers[t].n,
                                    Account(callers[t].trader_id, initial_balance))
        /\ callers' = [callers EXCEPT ![t].pc = "return"]
        /\ UNCHANGED <<accFrame, stripe_mutexes_, reported>>

\* the call returns true / the new account, and the lock is released
AccReturn ==
    \E t \in DOMAIN callers :
        /\ callers[t].pc = "return"
        /\ stripe_mutexes_' =
              [stripe_mutexes_ EXCEPT ![stripe_index(callers[t].trader_id)] = 0]
        /\ reported' = reported \cup {callers[t].trader_id}
        /\ callers' = [callers EXCEPT ![t].pc = "idle"]
        /\ UNCHANGED <<accFrame, accounts_>>

AccountsNext ==
    \/ AccCall \/ AccScan \/ AccLock \/ AccCheck \/ AccPushBack \/ AccStore
    \/ AccReturn

SpecAccounts == AccountsInit /\ [][AccountsNext]_vars

(***************************************************************************)
(* RingBuffer<T, Capacity> (ring_buffer.hpp), without synchronization: one *)
(* caller, one call at a time.  A ring value is [buffer_, head_, tail_,    *)
(* size_]; each operation gives [r, ret, value].                           *)
(***************************************************************************)
RingValues == 1..MaxRingValue

RingBuffer == [buffer_ |-> [i \in 0..(Capacity - 1) |-> 0], head_ |-> 0, tail_ |-> 0,
               size_ |-> 0]

ring_push_over_full(r, value) ==
    [r |-> [r EXCEPT !.buffer_[r.head_] = value,
                     !.head_ = BitAnd(r.head_ + 1, MASK),
                     !.size_ = Min2(r.size_ + 1, Capacity)],
     ret |-> TRUE, value |-> value]

\* bool push(const T& value), bool push(T&& value)
ring_push(r, value) ==
    IF r.size_ >= Capacity THEN [r |-> r, ret |-> FALSE, value |-> value]
    ELSE [r |-> [r EXCEPT !.buffer_[r.head_] = value,
                          !.head_ = BitAnd(r.head_ + 1, MASK),
                          !.size_ = r.size_ + 1],
          ret |-> TRUE, value |-> value]

\* bool pop(T& out); ret FALSE stands for std::nullopt of the other overload
ring_pop(r) ==
    IF r.size_ = 0 THEN [r |-> r, ret |-> FALSE, value |-> 0]
    ELSE [r |-> [r EXCEPT !.tail_ = BitAnd(r.tail_ + 1, MASK), !.size_ = r.size_ - 1],
          ret |-> TRUE, value |-> r.buffer_[r.tail_]]

\* const T* peek() const; ret FALSE stands for nullptr
ring_peek(r) ==
    IF r.size_ = 0 THEN [r |-> r, ret |-> FALSE, value |-> 0]
    ELSE [r |-> r, ret |-> TRUE, value |-> r.buffer_[r.tail_]]

\* void clear()
ring_clear(r) ==
    [r |-> [r EXCEPT !.head_ = 0, !.tail_ = 0, !.size_ = 0], ret |-> TRUE, value |-> 0]

RingInit ==
    /\ EngineInit
    /\ QueueInitOf(0)
    /\ NoTraders
    /\ NoCallers
    /\ NoObserver
    /\ ring = RingBuffer
    /\ ring_pushed = <<>>
    /\ ring_popped = <<>>
    /\ ring_ret = [op |-> "none", ret |-> FALSE, value |-> 0]

ringFrame ==
    <<bookVars, queueVars, engineVars, runVars, simVars, accessVars, observerVars>>

RingPush ==
    \E value \in RingValues :
        LET res == ring_push(ring, value)
        IN /\ Len(ring_pushed) < MaxRingPushes
           /\ ring' = res.r
           /\ ring_ret' = [op |-> "push", ret |-> res.ret, value |-> value]
           /\ ring_pushed' = IF res.ret THEN Append(ring_pushed, value) ELSE ring_pushed
           /\ UNCHANGED <<ringFrame, ring_popped>>

RingPop ==
    LET res == ring_pop(ring)
    IN /\ ring' = res.r
       /\ ring_ret' = [op |-> "pop", ret |-> res.ret, value |-> res.value]
       /\ ring_popped' = IF res.ret THEN Append(ring_popped, res.value) ELSE ring_popped
       /\ UNCHANGED <<ringFrame, ring_pushed>>

RingPeek ==
    LET res == ring_peek(ring)
    IN /\ ring' = res.r
       /\ ring_ret' = [op |-> "peek", ret |-> res.ret, value |-> res.value]
       /\ UNCHANGED <<ringFrame, ring_pushed, ring_popped>>

RingClear ==
    /\ ring' = ring_clear(ring).r
    /\ ring_ret' = [op |-> "clear", ret |-> TRUE, value |-> 0]
    /\ ring_pushed' = <<>>
    /\ ring_popped' = <<>>
    /\ UNCHANGED ringFrame

RingNext == RingPush \/ RingPop \/ RingPeek \/ RingClear

SpecRing == RingInit /\ [][RingNext]_vars

(***************************************************************************)
(* ObjectPool by itself (object_pool.hpp): any sequence of allocate,       *)
(* deallocate of an index in use, and clear, on the pool of the book.      *)
(***************************************************************************)
\* a clear that resets the flags and the size and keeps the links
clear_keeps_links(pool) ==
    [storage |-> [i \in DOMAIN pool.storage |->
                    [in_use |-> FALSE, next_free |-> pool.storage[i].next_free,
                     obj |-> NoOrder]],
     free_head |-> IF Cardinality(DOMAIN pool.storage) > 0 THEN 0 ELSE INVALID_INDEX,
     size |-> 0]

\* void clear()
clear(pool) ==
    [storage |-> [i \in DOMAIN pool.storage |->
                    [in_use |-> FALSE,
                     next_free |-> IF i + 1 < Cardinality(DOMAIN pool.storage)
                                   THEN i + 1 ELSE INVALID_INDEX,
                     obj |-> NoOrder]],
     free_head |-> IF Cardinality(DOMAIN pool.storage) > 0 THEN 0 ELSE INVALID_INDEX,
     size |-> 0]

\* the objects constructed in the pool
PoolObjects ==
    {Order(id, t, s, p, q) :
        id \in OrderIds, t \in TraderIds, s \in Sides, p \in Prices, q \in Qtys}

SetPool(pool) ==
    /\ storage_' = pool.storage
    /\ free_head_' = pool.free_head
    /\ size_' = pool.size

poolFrame == <<order_map_, bids_, asks_, total_trades_, total_volume_, queued, nonBookVars>>

PoolAllocate ==
    \E obj \in PoolObjects :
        /\ SetPool(allocate(Book.pool, obj).pool)
        /\ UNCHANGED poolFrame

\* deallocate asserts that the index is below the capacity and in use
PoolDeallocate ==
    \E index \in PoolIdx :
        /\ is_valid(Book.pool, index)
        /\ SetPool(deallocate(Book.pool, index))
        /\ UNCHANGED poolFrame

PoolClear ==
    /\ SetPool(clear(Book.pool))
    /\ UNCHANGED poolFrame

PoolNext == PoolAllocate \/ PoolDeallocate \/ PoolClear

SpecPool == Init /\ [][PoolNext]_vars

(***************************************************************************)
(* C1: the values returned by the pops are a prefix of the values accepted *)
(* by the pushes, whatever the interleaving.                               *)
(***************************************************************************)
IsPrefix(p, q) == Len(p) <= Len(q) /\ \A i \in 1..Len(p) : p[i] = q[i]

C1_FifoPrefix == IsPrefix(popped, pushed)

\* the indices have wrapped around the ring and a pop is in flight while a
\* push is in flight
C1_Witness ==
    /\ Len(popped) > Capacity
    /\ ~Idle(prod)
    /\ ~Idle(cons)

(***************************************************************************)
(* What the claims speak of: the calls a state admits, the orders linked   *)
(* at a level, sums.                                                       *)
(***************************************************************************)
\* the calls of the book interface, as [op, order_id, trader_id, side, price, qty]
CallOf(op, id, t, s, p, q) ==
    [op |-> op, order_id |-> id, trader_id |-> t, side |-> s, price |-> p, qty |-> q]

AddLimitCalls ==
    {CallOf("add_limit", id, t, s, p, q) :
        id \in OrderIds, t \in TraderIds, s \in Sides, p \in Prices, q \in Qtys}
AddMarketCalls ==
    {CallOf("add_market", id, t, s, 0, q) :
        id \in OrderIds, t \in TraderIds, s \in Sides, q \in Qtys}
CancelCalls ==
    {CallOf("cancel", id, INVALID_TRADER_ID, "Buy", 0, 0) : id \in OrderIds}
ModifyCalls ==
    {CallOf("modify", id, INVALID_TRADER_ID, "Buy", p, q) :
        id \in OrderIds, p \in 0..MaxPrice, q \in Qtys}
TakerCalls == AddLimitCalls \cup AddMarketCalls \cup ModifyCalls

\* what the call c gives on the book b
Result(b, c) ==
    CASE c.op = "add_limit" -> add_limit(b, c.order_id, c.trader_id, c.side, c.price, c.qty)
      [] c.op = "add_market" -> add_market(b, c.order_id, c.trader_id, c.side, c.qty)
      [] c.op = "cancel" -> cancel(b, c.order_id)
      [] c.op = "modify" -> modify(b, c.order_id, c.qty, c.price)

IsLive(b, id) == id \in DOMAIN b.order_map
LiveOrder(b, id) == b.pool.storage[b.order_map[id]].obj

\* the side on which the call c is a taker, and its limit price (0: none)
TakerSide(b, c) ==
    IF c.op = "modify" THEN LiveOrder(b, c.order_id).side ELSE c.side
TakerLimit(b, c) ==
    CASE c.op = "add_limit" -> c.price
      [] c.op = "add_market" -> 0
      [] c.op = "modify" -> IF c.price # 0 THEN c.price
                            ELSE LiveOrder(b, c.order_id).price

\* the pool indices linked from idx on, following next_idx (at most fuel of them)
RECURSIVE Chain(_, _, _)
Chain(storage, idx, fuel) ==
    IF idx \notin DOMAIN storage \/ fuel = 0 THEN <<>>
    ELSE <<idx>> \o Chain(storage, storage[idx].obj.next_idx, fuel - 1)

LevelChain(b, level) == Chain(b.pool.storage, level.head_idx, MaxOrders + 2)

RECURSIVE SumSeq(_)
SumSeq(q) == IF q = <<>> THEN 0 ELSE Head(q) + SumSeq(Tail(q))

Range(q) == {q[i] : i \in 1..Len(q)}

(***************************************************************************)
(* C4: for every trade the book emits while the engine processes an event, *)
(* with quantity q and price p: a Buy taker's position rises by q and its  *)
(* balance falls by p*q while the maker's position falls by q and its      *)
(* balance rises by p*q (signs reversed for a Sell taker), and both        *)
(* accounts' trade_count rises by 1 and their volume by q.                 *)
(***************************************************************************)
\* the claim about one trade, given the accounts before and after its callback
TradeBooked(before, after, trade) ==
    LET taker == get(before, trade.taker_trader_id)
        maker == get(before, trade.maker_trader_id)
        sign == IF trade.taker_side = "Buy" THEN 1 ELSE 0 - 1
        q == trade.qty
        pq == trade.price * trade.qty
    IN  /\ taker # 0
        /\ maker # 0
        /\ after[taker].position = before[taker].position + sign * q
        /\ after[taker].balance = before[taker].balance - sign * pq
        /\ after[maker].position = before[maker].position - sign * q
        /\ after[maker].balance = before[maker].balance + sign * pq
        /\ after[taker].trade_count = before[taker].trade_count + 1
        /\ after[maker].trade_count = before[maker].trade_count + 1
        /\ after[taker].volume = before[taker].volume + q
        /\ after[maker].volume = before[maker].volume + q

\* the claim about every trade of the book call r made by the engine e
TradesBooked(e, r) ==
    \A n \in 1..Len(r.trades) :
        TradeBooked(on_trades(e, r.trades, n - 1).accounts,
                    on_trades(e, r.trades, n).accounts, r.trades[n])

EventTradesBooked(e, event) ==
    check(e.accounts, event) = "Passed" => TradesBooked(e, dispatch(e.b, event))

C4_TradeUpdatesAccounts ==
    \A event \in Events : EventTradesBooked(ensure_account(Engine, event), event)

(***************************************************************************)
(* C5: after any sequence of events processed by the engine, the positions *)
(* of all accounts sum to 0 and their balances sum to the number of        *)
(* accounts times initial_balance, self-trades included.                   *)
(***************************************************************************)
RECURSIVE SumField(_, _)
SumField(accounts, field) ==
    IF accounts = <<>> THEN 0
    ELSE Head(accounts)[field] + SumField(Tail(accounts), field)

C5_Conservation ==
    /\ SumField(accounts_, "position") = 0
    /\ SumField(accounts_, "balance") = Len(accounts_) * initial_balance

\* one account traded with itself (its trades are counted twice) and with
\* another account (its position moved)
C5_Witness ==
    \E i \in 1..Len(accounts_) :
        /\ accounts_[i].trade_count > stats_.trade_count
        /\ accounts_[i].position # 0

(***************************************************************************)
(* C10: when the engine thread has been stopped and joined after the       *)
(* producer finished pushing N events, events_processed() equals N,        *)
(* whatever the events are.                                                *)
(***************************************************************************)
C10_AllEventsCounted == run_pc = "done" => events_processed_ = Len(pushed)

(***************************************************************************)
(* C11: every push has completed before the stop is requested; then when   *)
(* run() has returned the queue is empty and every pushed event has been   *)
(* passed to process_event exactly once, in push order.                    *)
(***************************************************************************)
ProcessedEvents == [i \in 1..Len(processed) |-> processed[i].event]

MakerHasPriority(b, c, r) ==
    /\ \A i \in 1..Len(r.trades) :
          /\ r.seen[i].oldest = r.trades[i].maker_order_id
          /\ r.seen[i].best_price = r.trades[i].price
    /\ (Len(r.trades) > 0 /\ r.seen[Len(r.trades)].maker_left > 0) =>
          \A c2 \in AddLimitCalls \cup AddMarketCalls :
              (c2.side = TakerSide(b, c) /\ Len(Result(r.b, c2).trades) > 0) =>
                  Result(r.b, c2).trades[1].maker_order_id =
                      r.trades[Len(r.trades)].maker_order_id

C2_PriceTimePriority ==
    \A c \in TakerCalls :
        (c.op = "modify" => IsLive(Book, c.order_id)) =>
            MakerHasPriority(Book, c, Result(Book, c))

\* a call that fills the older of two orders at one price, leaving the newer
C2_Witness ==
    \E c \in TakerCalls :
        /\ c.op = "modify" => IsLive(Book, c.order_id)
        /\ Len(Result(Book, c).trades) > 0
        /\ \E s \in Sides, p \in Prices :
              /\ Len(queued[s, p]) = 2
              /\ Result(Book, c).trades[1].maker_order_id = queued[s, p][1]
              /\ Result(Book, c).seen[1].maker_left > 0

(***************************************************************************)
(* C3: every trade is made at the price the maker rested at, and a limit   *)
(* taker never trades through its limit.                                   *)
(***************************************************************************)
TradeAtMakerPrice(b, c, r) ==
    \A i \in 1..Len(r.trades) :
        LET t == r.trades[i]
        IN /\ IsLive(b, t.maker_order_id)
           /\ t.price = LiveOrder(b, t.maker_order_id).price
           /\ c.op # "add_market" =>
                 IF TakerSide(b, c) = "Buy" THEN t.price <= TakerLimit(b, c)
                 ELSE t.price >= TakerLimit(b, c)

C3_TradePrice ==
    \A c \in TakerCalls :
        (c.op = "modify" => IsLive(Book, c.order_id)) =>
            TradeAtMakerPrice(Book, c, Result(Book, c))

\* a limit taker that trades at a price strictly better than its limit
C3_Witness ==
    \E c \in AddLimitCalls :
        /\ Len(Result(Book, c).trades) > 0
        /\ Result(Book, c).trades[1].price # c.price

(***************************************************************************)
(* C6: each level's total_qty is the sum of qty_remaining of the orders    *)
(* linked there and its order_count is their number.                       *)
(***************************************************************************)
LevelTotalsOf(b) ==
    \A s \in Sides : \A i \in 1..Len(Levels(b, s)) :
        LET level == Levels(b, s)[i]
            chain == LevelChain(b, level)
        IN /\ level.order_count = Len(chain)
           /\ level.total_qty =
                 SumSeq([k \in 1..Len(chain) |-> b.pool.storage[chain[k]].obj.qty_remaining])

C6_LevelTotals == LevelTotalsOf(Book)

\* two orders at one level, one of them partly filled
C6_Witness ==
    \E s \in Sides : \E i \in 1..Len(Levels(Book, s)) :
        /\ Levels(Book, s)[i].order_count = 2
        /\ \E k \in Range(LevelChain(Book, Levels(Book, s)[i])) :
              /\ storage_[k].obj.qty_remaining < storage_[k].obj.qty_original
              /\ storage_[k].obj.qty_remaining > 0
        /\ total_trades_ > 0

(***************************************************************************)
(* C7: the index maps exactly the ids of the linked orders, each to a live *)
(* slot holding that id; the pool size is the index size; every such order *)
(* is linked once, at the level of its own side and price.                 *)
(***************************************************************************)
\* the <<side, position, pool index>> of every link of every level
Links(b) ==
    {<<s, i, k>> \in Sides \X (1..MaxOrders) \X DOMAIN b.pool.storage :
        /\ i <= Len(Levels(b, s))
        /\ k \in Range(LevelChain(b, Levels(b, s)[i]))}

IndexIsLinkedOrders(b) ==
    /\ DOMAIN b.order_map = {b.pool.storage[l[3]].obj.order_id : l \in Links(b)}
    /\ \A id \in DOMAIN b.order_map :
          /\ is_valid(b.pool, b.order_map[id])
          /\ LiveOrder(b, id).order_id = id
          /\ \E l \in Links(b) :
                /\ l[3] = b.order_map[id]
                /\ l[1] = LiveOrder(b, id).side
                /\ Levels(b, l[1])[l[2]].price = LiveOrder(b, id).price
                /\ \A l2 \in Links(b) : l2[3] = l[3] => l2 = l
    /\ \A s \in Sides : \A i \in 1..Len(Levels(b, s)) :
          Len(LevelChain(b, Levels(b, s)[i])) =
              Cardinality(Range(LevelChain(b, Levels(b, s)[i])))
    /\ b.pool.size = Cardinality(DOMAIN b.order_map)

C7_IndexExact == IndexIsLinkedOrders(Book)

\* a full pool after an order has been filled and removed
C7_Witness ==
    /\ Cardinality(DOMAIN order_map_) = MaxOrders
    /\ total_volume_ > 0
    /\ Len(bids_) > 0 /\ Len(asks_) > 0

(***************************************************************************)
(* C8: bids strictly decreasing, asks strictly increasing, no empty level. *)
(***************************************************************************)
LevelsSorted(b) ==
    /\ \A i \in 1..(Len(b.bids) - 1) : b.bids[i].price > b.bids[i + 1].price
    /\ \A i \in 1..(Len(b.asks) - 1) : b.asks[i].price < b.asks[i + 1].price
    /\ \A s \in Sides : \A i \in 1..Len(Levels(b, s)) : Levels(b, s)[i].order_count # 0

C8_LevelsSorted == LevelsSorted(Book)

\* two levels on one side, after a trade
C8_Witness ==
    /\ \/ Len(bids_) = 2
       \/ Len(asks_) = 2
    /\ total_trades_ > 0

(***************************************************************************)
(* C9: add_limit of a non-duplicate order with qty > 0 and a free slot:    *)
(* the response adds up and its result is decided by trades and remainder. *)
(***************************************************************************)
AddLimitResponse(b, c, r) ==
    LET resp == r.response
        rests == /\ IsLive(r.b, c.order_id)
                 /\ LiveOrder(r.b, c.order_id).qty_remaining = resp.qty_remaining
                 /\ LiveOrder(r.b, c.order_id).price = c.price
                 /\ LiveOrder(r.b, c.order_id).side = c.side
    IN /\ resp.qty_filled + resp.qty_remaining = c.qty
       /\ resp.qty_filled = SumSeq([i \in 1..Len(r.trades) |-> r.trades[i].qty])
       /\ resp.trade_count = Len(r.trades)
       /\ resp.result \in {"FullyFilled", "PartiallyFilled", "Accepted"}
       /\ (resp.result = "FullyFilled") = (resp.qty_remaining = 0)
       /\ (resp.result = "FullyFilled") => ~IsLive(r.b, c.order_id)
       /\ (resp.result = "PartiallyFilled") =
             (Len(r.trades) > 0 /\ resp.qty_remaining > 0)
       /\ (resp.result = "PartiallyFilled") => rests
       /\ (resp.result = "Accepted") = (Len(r.trades) = 0)
       /\ (resp.result = "Accepted") => (rests /\ resp.qty_remaining = c.qty)

C9_AddLimitResult ==
    \A c \in AddLimitCalls :
        (~IsLive(Book, c.order_id) /\ c.qty > 0 /\ free_head_ # INVALID_INDEX) =>
            AddLimitResponse(Book, c, Result(Book, c))

\* an add_limit that is filled in part and rests its remainder
C9_Witness ==
    \E c \in AddLimitCalls :
        /\ ~IsLive(Book, c.order_id) /\ c.qty > 0 /\ free_head_ # INVALID_INDEX
        /\ Result(Book, c).response.result = "PartiallyFilled"
        /\ Result(Book, c).response.trade_count >= 1
        /\ Result(Book, c).response.qty_filled >= 1

(***************************************************************************)
(* C12: add_limit with an order id that is live returns Rejected with      *)
(* qty_filled = 0 and trade_count = 0, emits no trade and leaves the       *)
(* levels, the index, the pool and the trade counters as they were, also   *)
(* when the price of the new order crosses the opposite side.              *)
(***************************************************************************)
\* the call c, which gave r, was turned down with the given result and left
\* nothing behind
TurnedDown(b, c, r, result) ==
    /\ r.response.result = result
    /\ r.response.order_id = c.order_id
    /\ r.response.qty_filled = 0
    /\ r.response.trade_count = 0
    /\ r.trades = <<>>
    /\ r.b = b

C12_DuplicateRejected ==
    \A c \in AddLimitCalls :
        IsLive(Book, c.order_id) => TurnedDown(Book, c, Result(Book, c), "Rejected")

\* the call c would trade if its id were not looked up
Crosses(b, c) ==
    /\ c.qty > 0
    /\ RestingOn(b, opposite(c.side)) # {}
    /\ IF c.side = "Buy" THEN BestPriceOn(b, "Sell") <= c.price
       ELSE BestPriceOn(b, "Buy") >= c.price

\* an add_limit with a live id and a crossing price, the pool not full
C12_Witness ==
    \E c \in AddLimitCalls :
        /\ IsLive(Book, c.order_id)
        /\ Crosses(Book, c)
        /\ free_head_ # INVALID_INDEX

(***************************************************************************)
(* C13: cancel or modify of an order id that is not live returns NotFound, *)
(* emits no trade and leaves the levels, the index, the pool and the trade *)
(* counters as they were.                                                  *)
(***************************************************************************)
C13_UnknownNotFound ==
    \A c \in CancelCalls \cup ModifyCalls :
        ~IsLive(Book, c.order_id) => TurnedDown(Book, c, Result(Book, c), "NotFound")

\* after a trade and with an order resting, a modify with a quantity and a
\* price names an id that is not live
C13_Witness ==
    /\ total_trades_ > 0
    /\ DOMAIN order_map_ # {}
    /\ \E c \in ModifyCalls : ~IsLive(Book, c.order_id) /\ c.qty > 0 /\ c.price # 0

(***************************************************************************)
(* C14: when add_limit has a positive remainder to rest and the pool has   *)
(* no free slot, it returns Rejected; what matching did stays (the trades  *)
(* emitted, the makers, total_trades and total_volume), the remainder does *)
(* not rest, the taker's id is not in the index and the taker's side has   *)
(* no new level.                                                           *)
(***************************************************************************)
\* the add_limit c on the book b, where match_order gave m and the call gave r
ExhaustedRejected(b, c, m, r) ==
    (m.remaining > 0 /\ m.b.pool.free_head = INVALID_INDEX) =>
        /\ r.response.result = "Rejected"
        /\ r.response.qty_remaining = m.remaining
        /\ r.trades = m.trades
        /\ r.b = m.b
        /\ r.b.total_trades = b.total_trades + Len(r.trades)
        /\ r.b.total_volume =
              b.total_volume + SumSeq([i \in 1..Len(r.trades) |-> r.trades[i].qty])
        /\ ~IsLive(r.b, c.order_id)
        /\ \A i \in DOMAIN r.b.pool.storage :
              r.b.pool.storage[i].obj.order_id # c.order_id
        /\ r.b.pool.size <= b.pool.size
        /\ Levels(r.b, c.side) = Levels(b, c.side)
        /\ LevelsSorted(r.b)

C14_PoolExhausted ==
    \A c \in AddLimitCalls :
        ~IsLive(Book, c.order_id) =>
            ExhaustedRejected(Book, c,
                              match_order(Book, c.order_id, c.trader_id, c.side,
                                          c.price, c.qty, FALSE),
                              Result(Book, c))

\* the pool is full after a trade, and an add_limit with a new id and a
\* quantity is rejected
C14_Witness ==
    /\ free_head_ = INVALID_INDEX
    /\ total_trades_ > 0
    /\ \E c \in AddLimitCalls :
          /\ ~IsLive(Book, c.order_id)
          /\ c.qty > 0
          /\ Result(Book, c).response.result = "Rejected"

(***************************************************************************)
(* C15: add_market never adds an order to the book: after it the taker's   *)
(* id is not in the index because of the call, nothing on the taker's own  *)
(* side has changed and the pool has not grown, also when the opposite     *)
(* side ran out before the quantity was filled.                            *)
(***************************************************************************)
\* the add_market c on the book b gave r
NeverRests(b, c, r) ==
    /\ DOMAIN r.b.order_map \subseteq DOMAIN b.order_map
    /\ \A id \in DOMAIN r.b.order_map : r.b.order_map[id] = b.order_map[id]
    /\ r.b.pool.size <= b.pool.size
    /\ Levels(r.b, c.side) = Levels(b, c.side)
    /\ RestingOn(r.b, c.side) = RestingOn(b, c.side)
    /\ \A i \in RestingOn(b, c.side) : r.b.pool.storage[i] = b.pool.storage[i]
    /\ \A p \in Prices : r.b.queued[c.side, p] = b.queued[c.side, p]

C15_MarketNeverRests ==
    \A c \in AddMarketCalls : NeverRests(Book, c, Result(Book, c))

\* a market order that emptied the opposite side and was left with a
\* remainder, while an order rests on its own side
C15_Witness ==
    \E c \in AddMarketCalls :
        /\ RestingOn(Book, c.side) # {}
        /\ RestingOn(Book, opposite(c.side)) # {}
        /\ ~IsLive(Book, c.order_id)
        /\ Result(Book, c).response.qty_remaining > 0
        /\ Result(Book, c).response.trade_count > 0
        /\ Levels(Result(Book, c).b, opposite(c.side)) = <<>>

(***************************************************************************)
(* C16: a modify that keeps the price (new_price 0 or the current price)   *)
(* and sets new_qty strictly below the remaining quantity keeps the        *)
(* order's position in the FIFO of its level; every other successful       *)
(* modify places the order behind every order already resting at the       *)
(* target price.                                                           *)
(***************************************************************************)
\* the ids linked at the level of side s and price p, head first
LevelIds(b, s, p) ==
    LET levels == Levels(b, s)
        at == {i \in 1..Len(levels) : levels[i].price = p}
        chain == IF at = {} THEN <<>>
                 ELSE LevelChain(b, levels[CHOOSE i \in at : TRUE])
    IN [k \in 1..Len(chain) |-> b.pool.storage[chain[k]].obj.order_id]

\* the modify c of the live order `order` on the book b gave r
ModifyPriority(b, c, order, r) ==
    LET same_price == c.price = 0 \/ c.price = order.price
        target == IF same_price THEN order.price ELSE c.price
    IN IF same_price /\ c.qty < order.qty_remaining
       THEN /\ success(r.response)
            /\ LevelIds(r.b, order.side, order.price) =
                  LevelIds(b, order.side, order.price)
       ELSE (success(r.response) /\ IsLive(r.b, c.order_id)) =>
            /\ LiveOrder(r.b, c.order_id).price = target
            /\ LiveOrder(r.b, c.order_id).side = order.side
            /\ LevelIds(r.b, order.side, target) =
                  Append(SelectSeq(LevelIds(b, order.side, target),
                                   LAMBDA x : x # c.order_id),
                         c.order_id)

C16_ModifyPriority ==
    \A c \in ModifyCalls :
        IsLive(Book, c.order_id) =>
            ModifyPriority(Book, c, LiveOrder(Book, c.order_id), Result(Book, c))

\* the older of two orders at one level: a smaller quantity leaves it at the
\* head, the same quantity puts it behind the other order
C16_Witness ==
    \E s \in Sides, p \in Prices :
        /\ Len(LevelIds(Book, s, p)) = 2
        /\ \E c1, c2 \in ModifyCalls :
              /\ c1.order_id = LevelIds(Book, s, p)[1]
              /\ c2.order_id = c1.order_id
              /\ c1.price = 0 /\ c1.qty < LiveOrder(Book, c1.order_id).qty_remaining
              /\ c2.price = p /\ c2.qty = LiveOrder(Book, c1.order_id).qty_remaining
              /\ LevelIds(Result(Book, c1).b, s, p) = LevelIds(Book, s, p)
              /\ LevelIds(Result(Book, c2).b, s, p)[2] = c1.order_id

(***************************************************************************)
(* C17: modify returns only one of Modified, PartiallyFilled, FullyFilled  *)
(* or NotFound, for every book state, new_qty and new_price.               *)
(***************************************************************************)
C17_ModifyResults ==
    \A c \in ModifyCalls :
        Result(Book, c).response.result \in
            {"Modified", "PartiallyFilled", "FullyFilled", "NotFound"}

(***************************************************************************)
(* C17 as the code has it: modify returns only one of Modified, Accepted,  *)
(* PartiallyFilled, FullyFilled or NotFound.  NotFound is the result for   *)
(* an id that is not live; Modified the result for a live order whose      *)
(* price is kept and whose quantity is set strictly below the remaining    *)
(* one; a re-added order gives the result of add_limit, which is Accepted  *)
(* when nothing matched and the order rests.                               *)
(***************************************************************************)
\* the modify c on the book b gave r
ModifyResult(b, c, r) ==
    LET result == r.response.result
        in_place == /\ IsLive(b, c.order_id)
                    /\ c.price = 0 \/ c.price = LiveOrder(b, c.order_id).price
                    /\ c.qty < LiveOrder(b, c.order_id).qty_remaining
    IN /\ result \in {"Modified", "Accepted", "PartiallyFilled", "FullyFilled",
                      "NotFound"}
       /\ (result = "NotFound") = ~IsLive(b, c.order_id)
       /\ (result = "Modified") = in_place
       /\ (result = "Accepted") =
             (IsLive(b, c.order_id) /\ ~in_place /\ r.trades = <<>> /\ c.qty > 0)
       /\ (result = "Accepted") => IsLive(r.b, c.order_id)

C17_ModifyResultsAmended ==
    \A c \in ModifyCalls : ModifyResult(Book, c, Result(Book, c))

\* a modify to a new price that does not cross returns Accepted, and a modify
\* to a smaller quantity returns Modified
C17_Witness ==
    \E c1, c2 \in ModifyCalls :
        /\ IsLive(Book, c1.order_id)
        /\ c1.price # 0 /\ c1.price # LiveOrder(Book, c1.order_id).price
        /\ Result(Book, c1).response.result = "Accepted"
        /\ Result(Book, c2).response.result = "Modified"

(***************************************************************************)
(* C18: whenever add_limit, add_market or modify returns PartiallyFilled,  *)
(* at least one trade was emitted for that call: qty_filled > 0 and        *)
(* trade_count > 0.  add_market answers PartiallyFilled whenever a         *)
(* quantity is left, also when the opposite side is empty and nothing      *)
(* matched.                                                                *)
(***************************************************************************)
\* the call gave r: a PartiallyFilled result comes with a trade
PartialFillHasTrade(r) ==
    r.response.result = "PartiallyFilled" =>
        /\ r.response.qty_filled > 0
        /\ r.response.trade_count > 0
        /\ r.trades # <<>>

C18_PartialFillHasTrade ==
    \A c \in TakerCalls : PartialFillHasTrade(Result(Book, c))

(***************************************************************************)
(* C19: when the risk gate returns anything other than Passed for an       *)
(* event, the engine increments rejected_count by exactly 1, calls no book *)
(* operation, emits no trade, and leaves the book and the balance and      *)
(* position of every account unchanged.  (The account of the event's       *)
(* trader is looked for before the gate, so a trader seen for the first    *)
(* time gets an account at the initial balance and position 0.)            *)
(***************************************************************************)
\* the risk gate turns the event down in the engine e
RiskRejects(e, event) ==
    check(ensure_account(e, event).accounts, event) # "Passed"

\* process_event(e, event) gave e2, and only the rejection was counted
OnlyRejectionCounted(e, event, e2) ==
    /\ e2.stats = [e.stats EXCEPT !.rejected_count = @ + 1]
    /\ e2.b = e.b
    /\ e2.events_processed = e.events_processed
    /\ Len(e2.accounts) >= Len(e.accounts)
    /\ \A i \in 1..Len(e.accounts) : e2.accounts[i] = e.accounts[i]
    /\ \A i \in (Len(e.accounts) + 1)..Len(e2.accounts) :
          e2.accounts[i] = Account(event.trader_id, initial_balance)

C19_RejectedLeavesBook ==
    \A event \in Events :
        RiskRejects(Engine, event) =>
            OnlyRejectionCounted(Engine, event, process_event(Engine, event))

\* an event has been rejected, accounts hold trades, and the gate now turns
\* down an event that the book would have matched
C19_Witness ==
    /\ stats_.rejected_count > 0
    /\ stats_.trade_count > 0
    /\ \E event \in Events :
          /\ RiskRejects(Engine, event)
          /\ dispatch(Book, event).trades # <<>>

(***************************************************************************)
(* C20: RiskChecker.check returns Passed for every Cancel; for any other   *)
(* event it returns the first failing check in this order: price outside   *)
(* [min_price, max_price] gives InvalidPrice (check skipped for            *)
(* NewMarket), qty <= 0 or qty > max_order_qty gives InvalidQty,           *)
(* price*qty > max_order_value gives ExceedsMaxOrderValue, and, with       *)
(* balance checking on and side Buy, price*qty > the trader's balance      *)
(* gives InsufficientBalance; a price exactly equal to min_price or        *)
(* max_price and a notional exactly equal to the balance pass.             *)
(*                                                                         *)
(* The events are any an OrderEvent can hold, also with a price or a       *)
(* quantity one beyond the limits, a price on a market event and any       *)
(* trader on a Modify; the accounts are the engine's at the call, after    *)
(* the account lookup of process_event.                                    *)
(***************************************************************************)
CheckEvents ==
    {OrderEvent(type, 1, t, s, p, q) :
        type \in {"NewLimit", "NewMarket", "Cancel", "Modify"},
        t \in EngineTraderIds \cup {INVALID_TRADER_ID}, s \in Sides,
        p \in 0..(MaxPrice + 1), q \in 0..(MaxQty + 1)}

\* the accounts that check(event) reads in process_event
AccountsAtCheck(event) == ensure_account(Engine, event).accounts

Notional(event) == event.price * event.qty

\* the checks of the claim in their order, each with its result; short is
\* whether the balance check fails
FailingChecks(event, short) ==
    {<<1, "InvalidPrice">> : x \in
        {x \in {1} : /\ event.type # "NewMarket"
                     /\ (event.price < min_price \/ event.price > max_price)}}
    \cup {<<2, "InvalidQty">> : x \in
        {x \in {1} : event.qty <= 0 \/ event.qty > max_order_qty}}
    \cup {<<3, "ExceedsMaxOrderValue">> : x \in
        {x \in {1} : Notional(event) > max_order_value}}
    \cup {<<4, "InsufficientBalance">> : x \in
        {x \in {1} : check_balance /\ event.side = "Buy" /\ short}}

FirstFailing(event, short) ==
    LET failing == FailingChecks(event, short)
    IN  IF event.type = "Cancel" \/ failing = {} THEN "Passed"
        ELSE (CHOOSE f \in failing : \A g \in failing : f[1] <= g[1])[2]

ShortOrNoAccount(accounts, event) ==
    \/ get(accounts, event.trader_id) = 0
    \/ Notional(event) > get_balance(accounts, event.trader_id)

AtLimitsPasses(accounts, event) ==
    (/\ event.type # "Cancel"
     /\ event.price \in {min_price, max_price}
     /\ event.qty > 0 /\ event.qty <= max_order_qty
     /\ Notional(event) <= max_order_value
     /\ get(accounts, event.trader_id) # 0
     /\ Notional(event) = get_balance(accounts, event.trader_id))
        => check(accounts, event) = "Passed"

ReducesInPlace(b, event) ==
    /\ event.type = "Modify"
    /\ event.price = 0
    /\ IsLive(b, event.order_id)
    /\ 0 < event.qty
    /\ event.qty < LiveOrder(b, event.order_id).qty_remaining

\* process_event(e, event) gave e2: the order is where it was, with new_qty
ReducedInPlace(e, event, order, e2) ==
    /\ IsLive(e2.b, event.order_id)
    /\ LiveOrder(e2.b, event.order_id).price = order.price
    /\ LiveOrder(e2.b, event.order_id).qty_remaining = event.qty
    /\ LevelIds(e2.b, order.side, order.price) = LevelIds(e.b, order.side, order.price)

C21_ModifyZeroPrice ==
    \A event \in ModifyEvents :
        ReducesInPlace(Book, event) =>
            ReducedInPlace(Engine, event, LiveOrder(Book, event.order_id),
                           process_event(Engine, event))

(***************************************************************************)
(* C22: after the engine processes any NewLimit, NewMarket or Modify event *)
(* carrying trader id T, an account for T exists; there is never more than *)
(* one account per trader id; processing a Cancel event creates no         *)
(* account; and no account disappears except through clear().              *)
(* get_or_create gives no account once max_traders accounts exist, and     *)
(* process_event goes on without one.                                      *)
(***************************************************************************)
\* process_event(e, event) gave e2: the event's trader has an account
AccountExistsAfter(event, e2) ==
    event.type # "Cancel" => get(e2.accounts, event.trader_id) # 0

OneAccountPerTrader(accounts) ==
    \A i, j \in 1..Len(accounts) :
        accounts[i].trader_id = accounts[j].trader_id => i = j

\* process_event(e, event) gave e2: the accounts of e are all there, in
\* their places, and a Cancel added none
AccountsKept(e, event, e2) ==
    /\ Len(e2.accounts) >= Len(e.accounts)
    /\ \A i \in 1..Len(e.accounts) :
          e2.accounts[i].trader_id = e.accounts[i].trader_id
    /\ event.type = "Cancel" => Len(e2.accounts) = Len(e.accounts)

C22_AccountsCreatedLazily ==
    /\ OneAccountPerTrader(accounts_)
    /\ \A event \in Events :
          /\ AccountExistsAfter(event, process_event(Engine, event))
          /\ AccountsKept(Engine, event, process_event(Engine, event))

(***************************************************************************)
(* C23: after every book operation (add_limit, add_market, cancel, modify, *)
(* with any arguments) returns, every order resting in the book has        *)
(* 0 < qty_remaining <= qty_original: an order whose remaining quantity    *)
(* has reached 0 is no longer linked, indexed or allocated.  modify with   *)
(* new_qty 0 at the same price writes 0 into the resting order.            *)
(***************************************************************************)
\* the orders of the book b: those in the index, in a level's chain, or in
\* a slot in use
RestingIdx(b) ==
    {b.order_map[id] : id \in DOMAIN b.order_map}
    \cup UNION {Range(LevelChain(b, b.bids[i])) : i \in 1..Len(b.bids)}
    \cup UNION {Range(LevelChain(b, b.asks[i])) : i \in 1..Len(b.asks)}
    \cup {i \in DOMAIN b.pool.storage : b.pool.storage[i].in_use}

RestingQtyPositive(b) ==
    \A i \in RestingIdx(b) :
        /\ 0 < b.pool.storage[i].obj.qty_remaining
        /\ b.pool.storage[i].obj.qty_remaining <= b.pool.storage[i].obj.qty_original

C23_RestingQtyPositive == RestingQtyPositive(Book)

(***************************************************************************)
(* C24: when the queue holds exactly C elements, a blocking push does not  *)
(* complete and try_push returns false; as soon as the consumer completes  *)
(* one pop, the blocked push completes (under fair scheduling) and the     *)
(* queue again holds C elements.                                           *)
(*                                                                         *)
(* The elements the queue holds are those of the completed pushes that no  *)
(* completed pop has taken.                                                *)
(***************************************************************************)
Held == Len(pushed) - Len(popped)

\* with C elements held no push completes, and a producer call that
\* returns, returns false and is not the blocking push
FullBlocksPush ==
    Held = Capacity =>
        /\ Len(pushed') = Len(pushed)
        /\ (prod' # prod /\ ~Idle(prod)) =>
              /\ prod.op # "push"
              /\ prod.pc = "acquire"
              /\ Idle(prod') /\ prod'.ret = FALSE

\* the push that completes after one pop from the full queue fills it again
PushRefills ==
    (Held = Capacity - 1 /\ Len(pushed') = Len(pushed) + 1) =>
        Len(pushed') - Len(popped') = Capacity

\* the n-th push is blocked
BlockedPush(n) ==
    /\ prod.op = "push" /\ prod.pc = "acquire"
    /\ Len(pushed) = n

C24_FullBlocksUntilPop ==
    /\ [][FullBlocksPush /\ PushRefills]_vars
    /\ \A n \in 0..MaxPushes :
          (BlockedPush(n) /\ Held < Capacity) ~> (Len(pushed) > n)

\* a blocking push waits at a full queue that has wrapped around
C24_Witness ==
    /\ BlockedPush(Len(pushed))
    /\ free_slots_ = 0
    /\ Held = Capacity
    /\ Len(popped) > 0

(***************************************************************************)
(* C25: try_push on a full queue and try_pop on an empty queue (and        *)
(* try_push_for / try_pop_for on timeout) return false and leave head,     *)
(* tail, the buffer contents, both semaphore counts and the caller's       *)
(* output argument unchanged.                                              *)
(***************************************************************************)
QueueState == <<buffer_, head_, tail_, free_slots_, filled_slots_>>

\* the thread t enters a call or returns false from one in this step
Enters(t, t2) == Idle(t) /\ ~Idle(t2)
ReturnsFalse(t, t2) == ~Idle(t) /\ Idle(t2) /\ t2.ret = FALSE

\* a try call at its acquire with nothing to acquire can only return false
FailsOnFull ==
    (/\ prod.pc = "acquire" /\ prod.op \in {"try_push", "try_push_for"}
     /\ free_slots_ = 0 /\ prod' # prod) => ReturnsFalse(prod, prod')
FailsOnEmpty ==
    (/\ cons.pc = "acquire" /\ cons.op \in {"try_pop", "try_pop_for"}
     /\ filled_slots_ = 0 /\ cons' # cons) => ReturnsFalse(cons, cons')

\* the two steps of a call that returns false change nothing of the queue
FailedCallFrame ==
    /\ (Enters(prod, prod') \/ ReturnsFalse(prod, prod')) =>
          UNCHANGED <<QueueState, pushed, popped>>
    /\ (Enters(cons, cons') \/ ReturnsFalse(cons, cons')) =>
          /\ UNCHANGED <<QueueState, pushed, popped>>
          /\ cons'.out = cons.out

C25_FailedTryNoEffect == [][FailsOnFull /\ FailsOnEmpty /\ FailedCallFrame]_vars

\* a try_pop has failed after a pop had filled the caller's argument, and a
\* try_push has failed on the full queue
C25_Witness ==
    /\ Idle(cons) /\ cons.op \in {"try_pop", "try_pop_for"}
    /\ cons.ret = FALSE /\ cons.out # 0
    /\ Idle(prod) /\ prod.op \in {"try_push", "try_push_for"}
    /\ prod.ret = FALSE /\ free_slots_ = 0

(***************************************************************************)
(* C26: in a run of the simulator started with --traders T, for every      *)
(* T >= 1, exactly one thread ever calls the queue's producer operations   *)
(* and exactly one thread calls its consumer operations, so every          *)
(* generated event is delivered to the engine exactly once.  main() hands  *)
(* the one queue to each of the T trader threads.                          *)
(***************************************************************************)
\* the trader threads that have called push
Producers ==
    {i \in DOMAIN traders :
        traders[i].orders_sent_ > 0 \/ traders[i].pc \notin {"loop", "done"}}

Count(q, x) == Cardinality({k \in 1..Len(q) : q[k] = x})

\* every event the engine got is an event a push delivered, as often as it
\* was pushed at most, and after the run as often as it was pushed
DeliveredOnce ==
    /\ \A x \in Range(ProcessedEvents) : Count(ProcessedEvents, x) <= Count(pushed, x)
    /\ run_pc = "done" =>
          \A x \in Range(pushed) : Count(ProcessedEvents, x) = Count(pushed, x)

C26_OneProducerThread ==
    /\ Cardinality(Producers) <= 1
    /\ DeliveredOnce

(***************************************************************************)
(* C27: once stop has been requested and the producer pushes no further    *)
(* events, the engine's run() eventually returns with is_running() false;  *)
(* and as long as no stop is requested run() never returns, also when the  *)
(* queue stays empty.                                                      *)
(***************************************************************************)
RunReturned == run_pc = "done"

C27_RunStopsOnRequest ==
    /\ [](RunReturned => (stop_requested /\ ~running_))
    /\ stop_requested ~> RunReturned

\* run() has returned after events processed in the loop and in the drain
C27_Witness ==
    /\ RunReturned /\ ~running_
    /\ \E i, j \in 1..Len(processed) : processed[i].in_drain /\ ~processed[j].in_drain

(***************************************************************************)
(* C28: all Accounts operations are thread-safe: when several threads call *)
(* create_account or get_or_create concurrently, for the same or for       *)
(* different trader ids, every call that reports an account leaves that    *)
(* account present afterwards, no trader id gets two accounts, and the     *)
(* number of accounts never exceeds max_traders.  Two calls for trader ids *)
(* of different stripes hold different mutexes while they both change      *)
(* accounts_.                                                              *)
(***************************************************************************)
ReportedPresent == \A id \in reported : get(accounts_, id) # 0

C28_AccountsThreadSafe ==
    /\ ReportedPresent
    /\ OneAccountPerTrader(accounts_)
    /\ Len(accounts_) <= max_traders

(***************************************************************************)
(* C29: for any book state and any limit order X with an id that is not    *)
(* live and a price that does not cross the opposite side, add_limit(X)    *)
(* followed by cancel(X) restores the book: the same levels with the same  *)
(* orders in the same FIFO order and the same totals, the same index, the  *)
(* same pool size, total_trades and total_volume unchanged; on an empty    *)
(* book the result is the empty book.                                      *)
(***************************************************************************)
\* the book b after add_limit(c) and then cancel(c.order_id)
AddThenCancel(b, c) == cancel(Result(b, c).b, c.order_id).b

\* the orders linked at every level of b, level by level, head first
LinkedOrders(b) ==
    [s \in Sides |->
        [i \in 1..Len(Levels(b, s)) |->
            LET chain == LevelChain(b, Levels(b, s)[i])
            IN [k \in 1..Len(chain) |-> b.pool.storage[chain[k]].obj]]]

IsEmptyBook(b) ==
    /\ b.bids = <<>>
    /\ b.asks = <<>>
    /\ b.order_map = <<>>
    /\ b.pool.size = 0

Restored(b, b2) ==
    /\ b2.bids = b.bids
    /\ b2.asks = b.asks
    /\ LinkedOrders(b2) = LinkedOrders(b)
    /\ b2.order_map = b.order_map
    /\ b2.pool.size = b.pool.size
    /\ b2.total_trades = b.total_trades
    /\ b2.total_volume = b.total_volume
    /\ IsEmptyBook(b) => IsEmptyBook(b2)

C29_AddThenCancelRestores ==
    \A c \in AddLimitCalls :
        (~IsLive(Book, c.order_id) /\ ~Crosses(Book, c)) =>
            Restored(Book, AddThenCancel(Book, c))

\* an add_limit that rests X behind another order of its level, after a
\* trade; the cancel takes it out again
C29_Witness ==
    /\ total_trades_ > 0
    /\ \E c \in AddLimitCalls :
          /\ ~IsLive(Book, c.order_id)
          /\ ~Crosses(Book, c)
          /\ Result(Book, c).response.result = "Accepted"
          /\ Len(LevelIds(Result(Book, c).b, c.side, c.price)) = 2
          /\ cancel(Result(Book, c).b, c.order_id).response.result = "Cancelled"

(***************************************************************************)
(* C30: for the unsynchronized RingBuffer of capacity C, after any         *)
(* sequence of push, pop, peek and clear calls: size() is the number of    *)
(* successful pushes minus successful pops since the last clear and lies   *)
(* in 0..C; push fails, changing nothing, iff size() = C; pop and peek     *)
(* fail iff size() = 0; the successful pops return the pushed values in    *)
(* push order, across the wraparound of the indices; and peek returns the  *)
(* value the next pop returns, without removing it.                        *)
(***************************************************************************)
RingSize ==
    /\ ring.size_ = Len(ring_pushed) - Len(ring_popped)
    /\ ring.size_ \in 0..Capacity

PushFailsIffFull ==
    \A value \in RingValues :
        /\ ring_push(ring, value).ret = FALSE <=> ring.size_ = Capacity
        /\ ring_push(ring, value).ret = FALSE => ring_push(ring, value).r = ring

PopPeekFailIffEmpty ==
    /\ ring_pop(ring).ret = FALSE <=> ring.size_ = 0
    /\ ring_peek(ring).ret = FALSE <=> ring.size_ = 0

PopsInPushOrder ==
    /\ IsPrefix(ring_popped, ring_pushed)
    /\ ring_pop(ring).ret = TRUE =>
          ring_pop(ring).value = ring_pushed[Len(ring_popped) + 1]

PeekIsNextPop ==
    ring_peek(ring).ret = TRUE =>
        /\ ring_peek(ring).value = ring_pop(ring).value
        /\ ring_peek(ring).r = ring

C30_RingBufferFifo ==
    /\ RingSize
    /\ PushFailsIffFull
    /\ PopPeekFailIffEmpty
    /\ PopsInPushOrder
    /\ PeekIsNextPop

\* a push has just failed on the full buffer, after both indices have
\* wrapped around, with two different values in the buffer
C30_Witness ==
    /\ ring_ret.op = "push"
    /\ ring_ret.ret = FALSE
    /\ ring.size_ = Capacity
    /\ Len(ring_popped) >= Capacity
    /\ ring_peek(ring).value # ring.buffer_[BitAnd(ring.tail_ + 1, MASK)]

(***************************************************************************)
(* C31: the trades emitted for one incoming order come in non-worsening    *)
(* price order for the taker (non-decreasing prices for a Buy taker,       *)
(* non-increasing for a Sell taker) and, within one price, in the arrival  *)
(* order of the makers; a level is never matched before every better-      *)
(* priced opposite level has been emptied and erased.                      *)
(***************************************************************************)
\* the makers of the trades made at price p, in the order of the trades
MakersAt(trades, p) ==
    LET at == SelectSeq(trades, LAMBDA t : t.price = p)
    IN [k \in 1..Len(at) |-> at[k].maker_order_id]

TradesInOrder(b, c, r) ==
    /\ \A i \in 1..(Len(r.trades) - 1) :
          IF TakerSide(b, c) = "Buy" THEN r.trades[i].price <= r.trades[i + 1].price
          ELSE r.trades[i].price >= r.trades[i + 1].price
    /\ \A p \in Prices :
          IsPrefix(MakersAt(r.trades, p), b.queued[opposite(TakerSide(b, c)), p])
    /\ \A i \in 1..Len(r.trades) :
          /\ r.seen[i].level_pos = 1
          /\ r.seen[i].best_price = r.trades[i].price

C31_TradesInOrder ==
    \A c \in TakerCalls :
        (c.op = "modify" => IsLive(Book, c.order_id)) =>
            TradesInOrder(Book, c, Result(Book, c))

\* a call that trades at two levels, the better price first
C31_Witness ==
    \E c \in TakerCalls :
        /\ c.op = "modify" => IsLive(Book, c.order_id)
        /\ Len(Result(Book, c).trades) = 2
        /\ Result(Book, c).trades[1].price # Result(Book, c).trades[2].price
        /\ Result(Book, c).trades[1].qty > 0
        /\ Result(Book, c).trades[2].qty > 0

(***************************************************************************)
(* C32: at the moment the trade callback is invoked for a fill, the maker  *)
(* order's pool slot is still allocated and its id is still in the order-  *)
(* id index, also when this fill reduces the maker to zero; the maker is   *)
(* unlinked, unindexed and deallocated only after the callback returned.   *)
(***************************************************************************)
\* the maker of trade i is gone from the book b2: not indexed, not queued,
\* and its slot is free or holds another order
MakerGone(b2, trade, see) ==
    /\ ~IsLive(b2, trade.maker_order_id)
    /\ \A p \in Prices : trade.maker_order_id \notin Range(b2.queued[opposite(trade.taker_side), p])
    /\ \/ ~is_valid(b2.pool, see.maker_idx)
       \/ b2.pool.storage[see.maker_idx].obj.order_id # trade.maker_order_id

CallbackSeesMaker(r) ==
    \A i \in 1..Len(r.trades) :
        /\ r.seen[i].maker_in_use
        /\ r.seen[i].maker_indexed
        /\ r.seen[i].maker_left <= 0 => MakerGone(r.b, r.trades[i], r.seen[i])

C32_CallbackSeesMaker ==
    \A c \in TakerCalls :
        (c.op = "modify" => IsLive(Book, c.order_id)) =>
            CallbackSeesMaker(Result(Book, c))

\* a fill that reduces the maker to zero
C32_Witness ==
    \E c \in TakerCalls :
        /\ c.op = "modify" => IsLive(Book, c.order_id)
        /\ Len(Result(Book, c).trades) > 0
        /\ Result(Book, c).trades[1].qty > 0
        /\ Result(Book, c).seen[1].maker_left = 0

(***************************************************************************)
(* C33: after every book operation returns, the book is not crossed:       *)
(* whenever both sides hold orders, best_bid() < best_ask(), so spread()   *)
(* >= 1.  This holds after add_limit, add_market, cancel and every branch  *)
(* of modify, including an add_limit rejected for pool exhaustion.         *)
(***************************************************************************)
NotCrossed(b) ==
    (RestingOn(b, "Buy") # {} /\ RestingOn(b, "Sell") # {}) =>
        /\ has_spread(b)
        /\ best_bid(b) < best_ask(b)
        /\ spread(b) >= 1
        /\ BestPriceOn(b, "Buy") = best_bid(b)
        /\ BestPriceOn(b, "Sell") = best_ask(b)

C33_NotCrossed ==
    /\ NotCrossed(Book)
    /\ \A c \in TakerCalls \cup CancelCalls : NotCrossed(Result(Book, c).b)

\* after a trade both sides hold an order, one tick apart, and an add_limit
\* with a new id is rejected because the pool is full
C33_Witness ==
    /\ total_trades_ > 0
    /\ has_spread(Book)
    /\ spread(Book) = 1
    /\ \E c \in AddLimitCalls :
          /\ ~IsLive(Book, c.order_id)
          /\ Result(Book, c).response.result = "Rejected"
          /\ has_spread(Result(Book, c).b)

(***************************************************************************)
(* C34: in every reachable state of the queue with one producer and one    *)
(* consumer: 0 <= head - tail <= C; free_slots + filled_slots <= C, with   *)
(* equality whenever no push or pop is in progress; the producer never     *)
(* writes a buffer slot whose previous element has not yet been read by    *)
(* the consumer, and the consumer never reads a slot before the producer's *)
(* write to it has completed (the store of head = i + 1 precedes the read  *)
(* of element i).                                                          *)
(***************************************************************************)
IndexRange == 0 <= head_ - tail_ /\ head_ - tail_ <= Capacity

SlotCount ==
    /\ free_slots_ + filled_slots_ <= Capacity
    /\ (prod.pc \in {"idle", "acquire"} /\ cons.pc \in {"idle", "acquire"}) =>
          free_slots_ + filled_slots_ = Capacity

\* the elements the consumer has read, the elements the producer has written
ReadsDone == tail_ + (IF cons.pc = "store" THEN 1 ELSE 0)
WritesDone == head_ + (IF prod.pc = "store" THEN 1 ELSE 0)

WriteAfterRead == prod.pc = "write" => prod.head - Capacity < ReadsDone

ReadAfterPublish ==
    cons.pc = "read" => /\ cons.tail < WritesDone
                        /\ head_ >= cons.tail + 1

NoSlotShared ==
    (prod.pc = "write" /\ cons.pc = "read") => slot_of(prod.head) # slot_of(cons.tail)

C34_QueueInvariants ==
    /\ IndexRange
    /\ SlotCount
    /\ WriteAfterRead
    /\ ReadAfterPublish
    /\ NoSlotShared

\* the producer is about to write a slot for the second time while the
\* consumer is about to read another slot
C34_Witness ==
    /\ prod.pc = "write"
    /\ prod.head >= Capacity
    /\ cons.pc = "read"

(***************************************************************************)
(* C35: size_approx() always returns a value in [0, C], also when it is    *)
(* called from a third thread while the producer and the consumer are      *)
(* pushing and popping between its two index loads; it equals pushes minus *)
(* pops when no push or pop runs concurrently.  The consumer can move      *)
(* tail_ beyond the head the call has loaded, and head - tail then wraps.  *)
(***************************************************************************)
SizeApproxReturned == observer.pc = "idle" /\ observer.calls > 0

SizeApproxInRange == SizeApproxReturned => observer.ret \in 0..Capacity

SizeApproxExactWhenQuiet ==
    (SizeApproxReturned /\ observer.quiet) =>
        observer.ret = observer.pushes - observer.pops

C35_SizeApproxInRange ==
    /\ SizeApproxInRange
    /\ SizeApproxExactWhenQuiet

(***************************************************************************)
(* C36: after any sequence of events processed by the engine,              *)
(* stats.trade_count equals book.trade_count(), stats.volume equals        *)
(* book.total_volume(), and stats.filled_qty equals stats.volume: every    *)
(* filled unit is counted once in each counter.                            *)
(***************************************************************************)
StatsMatchBook(e) ==
    /\ e.stats.trade_count = e.b.total_trades
    /\ e.stats.volume = e.b.total_volume
    /\ e.stats.filled_qty = e.stats.volume

C36_StatsMatchBook == StatsMatchBook(Engine)


\* an event has traded with two makers
C36_Witness ==
    /\ stats_.trade_count = 2
    /\ stats_.filled_qty >= 2
    /\ Cardinality(DOMAIN order_map_) = 0

(***************************************************************************)
(* C37: modify on a live order never returns Rejected or NotFound and      *)
(* never loses the order to pool exhaustion; afterwards the order id is    *)
(* live iff the result is not FullyFilled, and when live the order has the *)
(* same trader and side as before, the requested price (the old price when *)
(* new_price is 0), and a remaining quantity equal to new_qty minus the    *)
(* quantity filled during the call.                                        *)
(***************************************************************************)
FilledIn(r) == SumSeq([i \in 1..Len(r.trades) |-> r.trades[i].qty])

\* the modify c of the live order `order` gave r
ModifyKeepsOrder(c, order, r) ==
    /\ r.response.result \notin {"Rejected", "NotFound"}
    /\ IsLive(r.b, c.order_id) <=> r.response.result # "FullyFilled"
    /\ IsLive(r.b, c.order_id) =>
          /\ LiveOrder(r.b, c.order_id).order_id = c.order_id
          /\ LiveOrder(r.b, c.order_id).trader_id = order.trader_id
          /\ LiveOrder(r.b, c.order_id).side = order.side
          /\ LiveOrder(r.b, c.order_id).price =
                (IF c.price = 0 THEN order.price ELSE c.price)
          /\ LiveOrder(r.b, c.order_id).qty_remaining = c.qty - FilledIn(r)
          /\ r.response.qty_remaining = c.qty - FilledIn(r)

C37_ModifyKeepsOrder ==
    \A c \in ModifyCalls :
        IsLive(Book, c.order_id) =>
            ModifyKeepsOrder(c, LiveOrder(Book, c.order_id), Result(Book, c))

\* the pool is full and a modify to a crossing price is partly filled and
\* rests with the rest
C37_Witness ==
    /\ free_head_ = INVALID_INDEX
    /\ \E c \in ModifyCalls :
          /\ IsLive(Book, c.order_id)
          /\ c.price # 0
          /\ c.price # LiveOrder(Book, c.order_id).price
          /\ Result(Book, c).response.result = "PartiallyFilled"
          /\ FilledIn(Result(Book, c)) > 0
          /\ IsLive(Result(Book, c).b, c.order_id)

(***************************************************************************)
(* C38: the engine's treatment of a Modify event does not depend on the    *)
(* event's trader_id or side fields: two runs that differ only in those    *)
(* two fields of a Modify event end with the same risk result for it, the  *)
(* same book state, the same set of accounts and the same balances.        *)
(* process_event creates the account of the event's trader_id and checks   *)
(* that trader's balance when the event's side is Buy.                     *)
(***************************************************************************)
\* the Modify events that differ from modify_event(id, new_qty, new_price)
\* in trader_id and side only
ModifyVariants(id, new_qty, new_price) ==
    {OrderEvent("Modify", id, t, s, new_price, new_qty) :
        t \in EngineTraderIds \cup {INVALID_TRADER_ID}, s \in Sides}

RiskResultOf(e, event) == check(ensure_account(e, event).accounts, event)

SameTreatment(e, m1, m2) ==
    /\ RiskResultOf(e, m1) = RiskResultOf(e, m2)
    /\ process_event(e, m1).b = process_event(e, m2).b
    /\ process_event(e, m1).accounts = process_event(e, m2).accounts

C38_ModifyIgnoresTraderSide ==
    \A id \in OrderIds, new_qty \in Qtys, new_price \in 0..MaxPrice :
        \A m \in ModifyVariants(id, new_qty, new_price) :
            SameTreatment(Engine, modify_event(id, new_qty, new_price), m)

(***************************************************************************)
(* C39: with check_balance enabled and a non-negative initial balance, no  *)
(* account's balance is ever negative after any sequence of events         *)
(* processed by the engine: the pre-trade notional check on Buy events     *)
(* keeps every buyer able to pay for every fill of their orders.  The      *)
(* check compares the balance with the notional of the one event: a        *)
(* market order has notional 0, and nothing is set aside for an order      *)
(* that rests.                                                             *)
(***************************************************************************)
BalancesNonNegative(accounts) ==
    \A a \in 1..Len(accounts) : accounts[a].balance >= 0

C39_BalancesNonNegative ==
    (check_balance /\ initial_balance >= 0) => BalancesNonNegative(accounts_)

(***************************************************************************)
(* C40: after any sequence of allocate, deallocate (of live indices) and   *)
(* clear calls on an ObjectPool of capacity N: the freelist starting at    *)
(* free_head is acyclic and contains exactly the slots that are not in     *)
(* use, size() equals the number of in-use slots, allocate returns         *)
(* INVALID_INDEX iff size() = N and then changes nothing, and allocate     *)
(* never returns the index of a slot that is in use.                       *)
(***************************************************************************)
\* the slots linked from idx on, following next_free (at most fuel of them)
RECURSIVE FreeChain(_, _, _)
FreeChain(storage, idx, fuel) ==
    IF idx \notin DOMAIN storage \/ fuel = 0 THEN <<>>
    ELSE <<idx>> \o FreeChain(storage, storage[idx].next_free, fuel - 1)

FreeList(pool) ==
    FreeChain(pool.storage, pool.free_head, Cardinality(DOMAIN pool.storage) + 1)

InUse(pool) == {i \in DOMAIN pool.storage : pool.storage[i].in_use}

FreeListExact(pool) ==
    /\ Len(FreeList(pool)) = Cardinality(Range(FreeList(pool)))
    /\ Range(FreeList(pool)) = DOMAIN pool.storage \ InUse(pool)
    /\ pool.free_head \in DOMAIN pool.storage \cup {INVALID_INDEX}
    /\ \A i \in Range(FreeList(pool)) :
          pool.storage[i].next_free \in DOMAIN pool.storage \cup {INVALID_INDEX}

AllocateOnFree(pool, a) ==
    /\ a.idx = INVALID_INDEX <=> pool.size = Cardinality(DOMAIN pool.storage)
    /\ a.idx = INVALID_INDEX => a.pool = pool
    /\ a.idx # INVALID_INDEX =>
          /\ a.idx \in DOMAIN pool.storage
          /\ ~pool.storage[a.idx].in_use
          /\ a.pool.storage[a.idx].in_use
          /\ a.pool.size = pool.size + 1

PoolSound(pool) ==
    /\ FreeListExact(pool)
    /\ pool.size = Cardinality(InUse(pool))
    /\ \A obj \in PoolObjects : AllocateOnFree(pool, allocate(pool, obj))

C40_PoolSound == PoolSound(Book.pool)

\* every slot is free again and the freelist begins with the last slot,
\* which the next allocate returns
C40_Witness ==
    /\ size_ = 0
    /\ free_head_ = MaxOrders - 1
    /\ \E obj \in PoolObjects : allocate(Book.pool, obj).idx = MaxOrders - 1

====
